---- MODULE Spec2Model ----
(***************************************************************************)
(* A model of the chess engine of agent_minimax.py (MinimaxAgent): the     *)
(* evaluator, move ordering, transposition table, quiescence search, main  *)
(* alpha-beta search and the iterative-deepening controller select_move.   *)
(*                                                                         *)
(* The chess library (python-chess) is external to the repository.  A      *)
(* position is a node of a finite game graph; the library's answers about  *)
(* it (side to move, legal moves in generation order, captures, check,     *)
(* mate, piece sums) are attributes of the node.  The board object is the  *)
(* stack of the positions played, as the library keeps it for repetition   *)
(* detection.                                                              *)
(***************************************************************************)
EXTENDS Integers, Sequences, FiniteSets, TLC

(***************************************************************************)
(* Program constants.                                                      *)
(***************************************************************************)
TT_EXACT == 0
TT_LOWERBOUND == 1
TT_UPPERBOUND == 2
MAX_PLY == 128
MATE_SCORE == 100000
MATE_BOUND == 90000
INFINITE == 999999
ASPIRATION_WINDOW == 50
MIDGAME_FIXED_DEPTH == 5
ENDGAME_PHASE_THRESHOLD == 12
ENDGAME_MIN_DEPTH == 5
ENDGAME_MAX_DEPTH == 99
TEMPO_BONUS == 10
PHASE_MAX == 24
QS_CAP_CHECK == 6
QS_CAP_NORMAL == 12
DELTA_MARGIN == 100
DELTA_PHASE == 4
PROMOTION_BONUS == 9000
KILLER_PRIMARY == 900000
KILLER_SECONDARY == 800000
DEFAULT_DEPTH == 2

WHITE == TRUE
BLACK == FALSE

(***************************************************************************)
(* Bounds of the model.                                                    *)
(***************************************************************************)
NumSeeds == 3
MaxTimedDepth == 6
MaxIterations == 10
MaxCalls == 2
MaxSearchDepth == 4

(***************************************************************************)
(* Python's None for a move and for a score.                               *)
(***************************************************************************)
NoneMove == [from |-> -1, to |-> -1, promotion |-> FALSE]
NoneScore == [none |-> TRUE, v |-> 0]
Some(x) == [none |-> FALSE, v |-> x]

Max(a, b) == IF a >= b THEN a ELSE b
Min(a, b) == IF a <= b THEN a ELSE b
Abs(a) == IF a >= 0 THEN a ELSE -a
\* int(x / y) of Python for y > 0: true division, then truncation toward zero
TruncDiv(a, b) == IF a >= 0 THEN a \div b ELSE -((-a) \div b)

VARIABLES
  game,          \* the game graph the board lives in (input, fixed)
  board,         \* chess.Board: the stack of positions, the last is current
  engine,        \* MinimaxAgent fields: depth, tt, killers, history, counters
  sm,            \* select_move: its parameters, locals and program counter
  clock,         \* whether time.time() - start_time >= endgame_time_limit
  result,        \* what the last select_move call returned
  log            \* history: one record per select_move call, with its iterations

vars == <<game, board, engine, sm, clock, result, log>>

(***************************************************************************)
(* The game graph: Levels+1 layers of Width positions; a move leads to the *)
(* next layer, from the last layer three layers back: a position of chess  *)
(* recurs after four plies at the earliest.                                *)
(***************************************************************************)
Width == 3
Levels == 5
Positions == 1..((Levels + 1) * Width)
Level(p) == (p - 1) \div Width
Idx(p) == (p - 1) % Width
PosAt(l, i) == l * Width + (i % Width) + 1
Mix(p) == (p * 7 + game.seed * 5 + ((p * p) % 5)) % 11

ROOT == 1

Turn(p) == IF Level(p) % 2 = 0 THEN game.white ELSE ~game.white

\* python-chess: outcome of the position itself
Kind(p) ==
  IF p = ROOT THEN game.rootkind
  ELSE IF Level(p) < 2 THEN "play"
  ELSE CASE Mix(p) = 0 -> "checkmate"
         [] Mix(p) = 1 -> "stalemate"
         [] Mix(p) = 2 -> "insufficient"
         [] OTHER -> "play"

is_checkmate(p) == Kind(p) = "checkmate"
is_stalemate(p) == Kind(p) = "stalemate"
is_insufficient_material(p) == Kind(p) = "insufficient"
is_check(p) == is_checkmate(p) \/ (Kind(p) = "play" /\ Mix(p) \in {3, 4} /\ p # ROOT)

MgTable == <<-520, 35, -90, 140, 0, -35, 480, 90, -140, 60, -60>>
EgTable == <<-480, 60, -120, 100, 0, -20, 520, 40, -100, 90, -90>>
mg_score(p) == MgTable[((p * 3 + game.seed * 7) % 11) + 1]
eg_score(p) == EgTable[((p * 3 + game.seed * 7) % 11) + 1]
\* the phase of the graph's positions is that of the root
calculate_game_phase(p) == Min(game.phase, PHASE_MAX)

PieceTypes == <<"P", "N", "B", "R", "Q", "K">>
piece_values(t) ==
  CASE t = "P" -> 100 [] t = "N" -> 320 [] t = "B" -> 330
    [] t = "R" -> 500 [] t = "Q" -> 900 [] t = "K" -> 0

\* one legal move of position p, the j-th the library generates
MoveKind(p, j) == (p * 3 + j * 5 + game.seed) % 6
LegalMove(p, j) ==
  LET k == MoveKind(p, j)
      cap == k \in {0, 1} /\ Level(p) < Levels
      ep == k = 1 /\ cap
  IN [mv |-> [from |-> p % 4, to |-> 8 + ((p + j) % 4),
              promotion |-> (k = 2 /\ Level(p) < Levels)],
      dest |-> IF Level(p) < Levels
               THEN PosAt(Level(p) + 1, Idx(p) * 2 + j + game.seed)
               ELSE PosAt(Level(p) - 3, Idx(p) + j),
      capture |-> cap,
      ep |-> ep,
      victim |-> IF cap /\ ~ep THEN PieceTypes[((p + j + game.seed) % 5) + 1] ELSE "none",
      attacker |-> PieceTypes[((p * 2 + j) % 6) + 1]]

Branch == 2
legal_moves(p) ==
  IF Kind(p) \in {"checkmate", "stalemate"} THEN <<>>
  ELSE [j \in 1..Branch |-> LegalMove(p, j)]

(***************************************************************************)
(* chess.Board                                                             *)
(***************************************************************************)
Cur(b) == b[Len(b)]
push(b, m) == Append(b, m.dest)
Count(b, p) == Cardinality({i \in 1..Len(b) : b[i] = p})
is_repetition(b, n) == Count(b, Cur(b)) >= n
can_claim_draw(b) ==
  \/ Count(b, Cur(b)) >= 3
  \/ \E j \in DOMAIN legal_moves(Cur(b)) : Count(b, legal_moves(Cur(b))[j].dest) >= 2
is_game_over(b) ==
  \/ Kind(Cur(b)) # "play"
  \/ Count(b, Cur(b)) >= 5

(***************************************************************************)
(* MinimaxAgent: construction and clear_tt                                 *)
(***************************************************************************)
NoStats == [nodes_searched |-> 0, tt_hits |-> 0, tt_misses |-> 0,
            tt_cutoffs |-> 0, alpha_cutoffs |-> 0, quiescence_nodes |-> 0]
EmptyTT == <<>>
EmptyKillers == [p \in 0..(MAX_PLY - 1) |-> <<NoneMove, NoneMove>>]
EmptyHistory == [f \in 0..63 |-> [t \in 0..63 |-> 0]]

NewEngine(depth) ==
  [depth |-> depth, transposition_table |-> EmptyTT, killer_moves |-> EmptyKillers,
   history_table |-> EmptyHistory, stats |-> NoStats]

\* a clear_tt that leaves the history table as it is
clear_tt_KeepsHistory(E) ==
  [E EXCEPT !.transposition_table = EmptyTT,
            !.killer_moves = EmptyKillers]
\* a clear_tt that leaves the transposition table as it is
clear_tt_KeepsTable(E) ==
  [E EXCEPT !.killer_moves = EmptyKillers,
            !.history_table = EmptyHistory]
clear_tt(E) ==
  [E EXCEPT !.transposition_table = EmptyTT,
            !.killer_moves = EmptyKillers,
            !.history_table = EmptyHistory]

Bump(E, counter) == [E EXCEPT !.stats[counter] = @ + 1]
Ret(score, E) == [score |-> score, eng |-> E]

(***************************************************************************)
(* evaluate_board                                                          *)
(***************************************************************************)
Tapered(mg, eg, phase) == mg * phase + eg * (PHASE_MAX - phase)
Tempo(turn) == IF turn = WHITE THEN TEMPO_BONUS ELSE -TEMPO_BONUS

\* a mate score that does not count the plies
evaluate_board_MateWithoutPly(b, ply_from_root) ==
  IF is_checkmate(Cur(b)) THEN (IF Turn(Cur(b)) = WHITE THEN -MATE_SCORE ELSE MATE_SCORE)
  ELSE 0

evaluate_board(b, ply_from_root) ==
  LET p == Cur(b) IN
  IF is_checkmate(p)
  THEN IF Turn(p) = WHITE THEN -MATE_SCORE + ply_from_root
       ELSE MATE_SCORE - ply_from_root
  ELSE IF is_stalemate(p) \/ is_insufficient_material(p) THEN 0
  ELSE \* int(total / 24 + tempo)
       TruncDiv(Tapered(mg_score(p), eg_score(p), calculate_game_phase(p))
                  + PHASE_MAX * Tempo(Turn(p)), PHASE_MAX)

(***************************************************************************)
(* score_move and the ordering of move lists                               *)
(***************************************************************************)
IsQuiet(m) == ~m.capture /\ ~m.mv.promotion

VictimType(m) == IF m.victim = "none" /\ m.ep THEN "P" ELSE m.victim

score_move(E, m, ply) ==
  LET captureScore ==
        IF m.capture /\ VictimType(m) # "none"
        THEN piece_values(VictimType(m)) * 10 - piece_values(m.attacker)
        ELSE 0
      promotionScore == IF m.mv.promotion THEN PROMOTION_BONUS ELSE 0
      killerScore ==
        IF IsQuiet(m) /\ ply < MAX_PLY
        THEN IF m.mv = E.killer_moves[ply][1] THEN KILLER_PRIMARY
             ELSE IF m.mv = E.killer_moves[ply][2] THEN KILLER_SECONDARY
             ELSE 0
        ELSE 0
      historyScore ==
        IF IsQuiet(m) THEN E.history_table[m.mv.from][m.mv.to] ELSE 0
  IN captureScore + promotionScore + killerScore + historyScore

\* sorted(moves, key=score_move, reverse=True): stable, descending
RECURSIVE InsertDesc(_, _, _, _)
InsertDesc(sorted, m, E, ply) ==
  IF sorted = <<>> THEN <<m>>
  ELSE IF score_move(E, Head(sorted), ply) >= score_move(E, m, ply)
       THEN <<Head(sorted)>> \o InsertDesc(Tail(sorted), m, E, ply)
       ELSE <<m>> \o sorted

RECURSIVE SortedDesc(_, _, _)
SortedDesc(moves, E, ply) ==
  IF moves = <<>> THEN <<>>
  ELSE InsertDesc(SortedDesc(SubSeq(moves, 1, Len(moves) - 1), E, ply),
                  moves[Len(moves)], E, ply)

IndexOfMove(moves, mv) ==
  IF \E i \in DOMAIN moves : moves[i].mv = mv
  THEN CHOOSE i \in DOMAIN moves : moves[i].mv = mv /\ \A k \in 1..(i - 1) : moves[k].mv # mv
  ELSE 0

\* moves.remove(tt_move); moves.insert(0, tt_move)
MoveToFront(moves, mv) ==
  LET i == IndexOfMove(moves, mv)
  IN IF i = 0 THEN moves
     ELSE <<moves[i]>> \o SubSeq(moves, 1, i - 1) \o SubSeq(moves, i + 1, Len(moves))

TTBestMove(E, h) ==
  IF h \in DOMAIN E.transposition_table
  THEN E.transposition_table[h].best_move ELSE NoneMove

\* the move list of a main-search node, in the order it is searched
OrderMoves(E, p, ply) ==
  LET tt_move == TTBestMove(E, p)
      moves == IF tt_move # NoneMove THEN MoveToFront(legal_moves(p), tt_move)
               ELSE legal_moves(p)
  IN IF tt_move # NoneMove /\ Len(moves) > 1
     THEN <<moves[1]>> \o SortedDesc(Tail(moves), E, ply)
     ELSE SortedDesc(moves, E, ply)

\* the move list of the root in select_move: the first move always stays first
OrderRootMoves(E, p) ==
  LET tt_move == TTBestMove(E, p)
      moves == IF tt_move # NoneMove THEN MoveToFront(legal_moves(p), tt_move)
               ELSE legal_moves(p)
  IN IF Len(moves) > 1
     THEN <<moves[1]>> \o SortedDesc(Tail(moves), E, 0)
     ELSE moves

(***************************************************************************)
(* quiescence                                                              *)
(***************************************************************************)
\* one cap for all positions
QsCap_NoCheckCap(p) == QS_CAP_NORMAL
QsCap(p) == IF is_check(p) THEN QS_CAP_CHECK ELSE QS_CAP_NORMAL

TacticalMoves(p, in_check) ==
  IF in_check THEN legal_moves(p)
  ELSE SelectSeq(legal_moves(p), LAMBDA m : m.capture \/ m.mv.promotion)

\* delta pruning: the capture is skipped without being searched
DeltaPruned(m, in_check, phase, stand_pat, alpha, beta, is_maximizing) ==
  /\ m.capture /\ ~m.mv.promotion /\ ~in_check /\ phase > DELTA_PHASE
  /\ VictimType(m) # "none"
  /\ IF is_maximizing
     THEN stand_pat + piece_values(VictimType(m)) + DELTA_MARGIN < alpha
     ELSE stand_pat - piece_values(VictimType(m)) - DELTA_MARGIN > beta

RECURSIVE quiescence(_, _, _, _, _, _)
RECURSIVE qs_loop(_, _, _, _, _, _, _, _, _)

\* the stand-pat cutoff of a side that is not in check
StandPatCut(in_check, is_maximizing, stand_pat, alpha, beta) ==
  ~in_check /\ (IF is_maximizing THEN stand_pat >= beta ELSE stand_pat <= alpha)
StandPatAlpha(in_check, is_maximizing, stand_pat, alpha) ==
  IF ~in_check /\ is_maximizing /\ stand_pat > alpha THEN stand_pat ELSE alpha
StandPatBeta(in_check, is_maximizing, stand_pat, beta) ==
  IF ~in_check /\ ~is_maximizing /\ stand_pat < beta THEN stand_pat ELSE beta

\* a tactical move was searched with result r: cutoff, or on to the next move
qs_after(r, b, alpha, beta, ply_from_root, qs_depth, moves, i, stand_pat) ==
  IF Turn(Cur(b)) = WHITE
  THEN IF r.score >= beta THEN Ret(beta, r.eng)
       ELSE qs_loop(r.eng, b, Max(alpha, r.score), beta, ply_from_root,
                    qs_depth, moves, i + 1, stand_pat)
  ELSE IF r.score <= alpha THEN Ret(alpha, r.eng)
       ELSE qs_loop(r.eng, b, alpha, Min(beta, r.score), ply_from_root,
                    qs_depth, moves, i + 1, stand_pat)

\* the loop over the tactical moves, from the i-th on
qs_loop(E, b, alpha, beta, ply_from_root, qs_depth, moves, i, stand_pat) ==
  IF i > Len(moves) THEN Ret(IF Turn(Cur(b)) = WHITE THEN alpha ELSE beta, E)
  ELSE IF DeltaPruned(moves[i], is_check(Cur(b)), calculate_game_phase(Cur(b)),
                      stand_pat, alpha, beta, Turn(Cur(b)) = WHITE)
  THEN qs_loop(E, b, alpha, beta, ply_from_root, qs_depth, moves, i + 1, stand_pat)
  ELSE qs_after(quiescence(E, push(b, moves[i]), alpha, beta,
                           ply_from_root + 1, qs_depth + 1),
                b, alpha, beta, ply_from_root, qs_depth, moves, i, stand_pat)

\* the node after the counters: caps, terminal test, stand pat, tactical moves
qs_node(E, b, alpha, beta, ply_from_root, qs_depth, stand_pat, in_check, is_maximizing) ==
  IF qs_depth >= QsCap(Cur(b)) \/ is_game_over(b) THEN Ret(stand_pat, E)
  ELSE IF StandPatCut(in_check, is_maximizing, stand_pat, alpha, beta)
  THEN Ret(IF is_maximizing THEN beta ELSE alpha, E)
  ELSE IF TacticalMoves(Cur(b), in_check) = <<>> THEN Ret(stand_pat, E)
  ELSE qs_loop(E, b, StandPatAlpha(in_check, is_maximizing, stand_pat, alpha),
               StandPatBeta(in_check, is_maximizing, stand_pat, beta),
               ply_from_root, qs_depth,
               SortedDesc(TacticalMoves(Cur(b), in_check), E, ply_from_root),
               1, stand_pat)

\* a quiescence that stores its score in the transposition table
quiescence_Stores(E, b, alpha, beta, ply_from_root, qs_depth) ==
  LET r == qs_node(Bump(Bump(E, "nodes_searched"), "quiescence_nodes"), b, alpha, beta,
                   ply_from_root, qs_depth, evaluate_board(b, ply_from_root),
                   is_check(Cur(b)), Turn(Cur(b)) = WHITE)
      entry == [score |-> r.score, depth |-> 0, flag |-> TT_EXACT, best_move |-> NoneMove]
  IN Ret(r.score,
         [r.eng EXCEPT !.transposition_table =
            [k \in (DOMAIN @) \cup {Cur(b)} |-> IF k = Cur(b) THEN entry ELSE @[k]]])
quiescence(E, b, alpha, beta, ply_from_root, qs_depth) ==
  qs_node(Bump(Bump(E, "nodes_searched"), "quiescence_nodes"), b, alpha, beta,
          ply_from_root, qs_depth, evaluate_board(b, ply_from_root),
          is_check(Cur(b)), Turn(Cur(b)) = WHITE)

(***************************************************************************)
(* minimax: the transposition table                                        *)
(***************************************************************************)
\* stored (position-relative) score to the score at this ply
DeNormalize(tt_score, ply_from_root) ==
  IF tt_score > MATE_BOUND THEN tt_score - ply_from_root
  ELSE IF tt_score < -MATE_BOUND THEN tt_score + ply_from_root
  ELSE tt_score

\* a store that leaves mate scores root-relative
Normalize_Unshifted(score, ply_from_root) == score
\* score at this ply to the stored (position-relative) score
Normalize(score, ply_from_root) ==
  IF score > MATE_BOUND THEN score + ply_from_root
  ELSE IF score < -MATE_BOUND THEN score - ply_from_root
  ELSE score

\* a flag that takes every score for exact
TTFlag_AlwaysExact(score, alpha_orig, beta_orig) == TT_EXACT
TTFlag(score, alpha_orig, beta_orig) ==
  IF score <= alpha_orig THEN TT_UPPERBOUND
  ELSE IF score >= beta_orig THEN TT_LOWERBOUND
  ELSE TT_EXACT

\* a policy that always overwrites
ShouldReplace_Always(tt, h, depth, flag) == TRUE
\* a policy that also overwrites at equal depth
ShouldReplace_EqualDepth(tt, h, depth, flag) ==
  IF h \in DOMAIN tt
  THEN IF tt[h].depth > depth THEN flag = TT_EXACT /\ tt[h].flag # TT_EXACT
       ELSE TRUE
  ELSE TRUE
ShouldReplace(tt, h, depth, flag) ==
  IF h \in DOMAIN tt
  THEN IF tt[h].depth > depth THEN flag = TT_EXACT /\ tt[h].flag # TT_EXACT
       ELSE IF tt[h].depth = depth THEN flag = TT_EXACT /\ tt[h].flag # TT_EXACT
       ELSE TRUE
  ELSE TRUE

TTPut(tt, h, entry) ==
  [k \in (DOMAIN tt) \cup {h} |-> IF k = h THEN entry ELSE tt[k]]

TTStore(E, h, depth, score, alpha_orig, beta_orig, ply_from_root, best_move) ==
  LET flag == TTFlag(score, alpha_orig, beta_orig)
  IN IF ShouldReplace(E.transposition_table, h, depth, flag)
     THEN [E EXCEPT !.transposition_table =
             TTPut(@, h, [score |-> Normalize(score, ply_from_root), depth |-> depth,
                          flag |-> flag, best_move |-> best_move])]
     ELSE E

\* a probe that is not skipped at the root
TTProbe_AtRoot(E, h, depth, alpha, beta, ply_from_root) ==
  LET miss == [hit |-> FALSE, cut |-> FALSE, score |-> 0, alpha |-> alpha, beta |-> beta]
  IN IF h \in DOMAIN E.transposition_table
     THEN LET entry == E.transposition_table[h]
              tt_score == DeNormalize(entry.score, ply_from_root)
          IN IF entry.depth >= depth
             THEN IF entry.flag = TT_EXACT
                  THEN [hit |-> TRUE, cut |-> TRUE, score |-> tt_score,
                        alpha |-> alpha, beta |-> beta]
                  ELSE LET a == IF entry.flag = TT_LOWERBOUND
                                THEN Max(alpha, tt_score) ELSE alpha
                           bt == IF entry.flag = TT_UPPERBOUND
                                 THEN Min(beta, tt_score) ELSE beta
                       IN [hit |-> TRUE, cut |-> a >= bt,
                           score |-> IF entry.flag = TT_LOWERBOUND THEN a ELSE bt,
                           alpha |-> a, beta |-> bt]
             ELSE [miss EXCEPT !.hit = TRUE]
     ELSE miss
\* the probe: whether the node returns at once, with which score, and the window
TTProbe(E, h, depth, alpha, beta, ply_from_root) ==
  LET miss == [hit |-> FALSE, cut |-> FALSE, score |-> 0, alpha |-> alpha, beta |-> beta]
  IN IF ply_from_root > 0 /\ h \in DOMAIN E.transposition_table
     THEN LET entry == E.transposition_table[h]
              tt_score == DeNormalize(entry.score, ply_from_root)
          IN IF entry.depth >= depth
             THEN IF entry.flag = TT_EXACT
                  THEN [hit |-> TRUE, cut |-> TRUE, score |-> tt_score,
                        alpha |-> alpha, beta |-> beta]
                  ELSE LET a == IF entry.flag = TT_LOWERBOUND
                                THEN Max(alpha, tt_score) ELSE alpha
                           bt == IF entry.flag = TT_UPPERBOUND
                                 THEN Min(beta, tt_score) ELSE beta
                       IN [hit |-> TRUE, cut |-> a >= bt,
                           score |-> IF entry.flag = TT_LOWERBOUND THEN a ELSE bt,
                           alpha |-> a, beta |-> bt]
             ELSE [miss EXCEPT !.hit = TRUE]
     ELSE miss

(***************************************************************************)
(* minimax: killers and history on a beta cutoff                           *)
(***************************************************************************)
\* an update that shifts even when the move is the primary already
UpdateKillers_NoTest(killers, ply_from_root, mv) ==
  IF ply_from_root < MAX_PLY
  THEN [killers EXCEPT ![ply_from_root] = <<mv, @[1]>>]
  ELSE killers
\* an update that drops the old primary instead of shifting it
UpdateKillers_NoShift(killers, ply_from_root, mv) ==
  IF ply_from_root < MAX_PLY /\ mv # killers[ply_from_root][1]
  THEN [killers EXCEPT ![ply_from_root] = <<mv, @[2]>>]
  ELSE killers
UpdateKillers(killers, ply_from_root, mv) ==
  IF ply_from_root < MAX_PLY /\ mv # killers[ply_from_root][1]
  THEN [killers EXCEPT ![ply_from_root] = <<mv, @[1]>>]
  ELSE killers

\* a cutoff that records captures and promotions as well
OnCutoff_AnyMove(E, m, depth, ply_from_root) ==
  [Bump(E, "alpha_cutoffs") EXCEPT
     !.history_table[m.mv.from][m.mv.to] = @ + depth * depth,
     !.killer_moves = UpdateKillers(@, ply_from_root, m.mv)]
\* a cutoff that sets the history entry to the bonus instead of adding it
OnCutoff_HistorySet(E, m, depth, ply_from_root) ==
  LET E1 == Bump(E, "alpha_cutoffs")
  IN IF IsQuiet(m)
     THEN [E1 EXCEPT !.history_table[m.mv.from][m.mv.to] = depth * depth,
                     !.killer_moves = UpdateKillers(@, ply_from_root, m.mv)]
     ELSE E1
OnCutoff(E, m, depth, ply_from_root) ==
  LET E1 == Bump(E, "alpha_cutoffs")
  IN IF IsQuiet(m)
     THEN [E1 EXCEPT !.history_table[m.mv.from][m.mv.to] = @ + depth * depth,
                     !.killer_moves = UpdateKillers(@, ply_from_root, m.mv)]
     ELSE E1

RepetitionGate(b, ply_from_root) ==
  ply_from_root > 0 /\ (is_repetition(b, 2) \/ can_claim_draw(b))

(***************************************************************************)
(* minimax                                                                 *)
(***************************************************************************)
\* the sum of the history entries of the moves of the graph
RECURSIVE HistorySum(_, _)
HistorySum(E, cells) ==
  IF cells = {} THEN 0
  ELSE LET c == CHOOSE x \in cells : TRUE
       IN E.history_table[c[1]][c[2]] + HistorySum(E, cells \ {c})
MoveSquares == (0..3) \X (8..11)

RECURSIVE minimax(_, _, _, _, _, _)
RECURSIVE minimax_loop(_, _, _, _, _, _, _, _, _, _)

LoopResult(score, best_move, E) == [score |-> score, best_move |-> best_move, eng |-> E]
Better(is_maximizing, eval, best_eval) ==
  IF is_maximizing THEN eval > best_eval ELSE eval < best_eval

\* a move m was searched with result r: best move, window, cutoff or next move
loop_after(r, m, is_maximizing, b, depth, alpha, beta, ply_from_root, moves, i, best_eval, best_move) ==
  LET better == Better(is_maximizing, r.score, best_eval)
      eval2 == IF better THEN r.score ELSE best_eval
      move2 == IF better THEN m.mv ELSE best_move
      alpha2 == IF is_maximizing THEN Max(alpha, r.score) ELSE alpha
      beta2 == IF is_maximizing THEN beta ELSE Min(beta, r.score)
  IN IF beta2 <= alpha2
     THEN LoopResult(eval2, move2, OnCutoff(r.eng, m, depth, ply_from_root))
     ELSE minimax_loop(r.eng, b, depth, alpha2, beta2, ply_from_root, moves, i + 1,
                       eval2, move2)

\* the loop over the moves of a node, from the i-th on
minimax_loop(E, b, depth, alpha, beta, ply_from_root, moves, i, best_eval, best_move) ==
  IF i > Len(moves) THEN LoopResult(best_eval, best_move, E)
  ELSE loop_after(minimax(E, push(b, moves[i]), depth - 1, alpha, beta, ply_from_root + 1),
                  moves[i], Turn(Cur(b)) = WHITE, b, depth, alpha, beta, ply_from_root,
                  moves, i, best_eval, best_move)

\* the node's result is stored and returned
node_store(done, p, depth, alpha_orig, beta_orig, ply_from_root) ==
  Ret(done.score,
      TTStore(done.eng, p, depth, done.score, alpha_orig, beta_orig, ply_from_root,
              done.best_move))

\* a node that takes the flag from the window the probe left
node_search_ProbeWindow(E, b, depth, alpha_orig, beta_orig, ply_from_root, probe) ==
  IF probe.cut THEN Ret(probe.score, Bump(E, "tt_cutoffs"))
  ELSE node_store(minimax_loop(E, b, depth, probe.alpha, probe.beta, ply_from_root,
                               OrderMoves(E, Cur(b), ply_from_root), 1,
                               IF Turn(Cur(b)) = WHITE THEN -INFINITE ELSE INFINITE,
                               NoneMove),
                  Cur(b), depth, probe.alpha, probe.beta, ply_from_root)

\* the node after the probe: return at once, or search the moves and store
node_search(E, b, depth, alpha_orig, beta_orig, ply_from_root, probe) ==
  IF probe.cut THEN Ret(probe.score, Bump(E, "tt_cutoffs"))
  ELSE node_store(minimax_loop(E, b, depth, probe.alpha, probe.beta, ply_from_root,
                               OrderMoves(E, Cur(b), ply_from_root), 1,
                               IF Turn(Cur(b)) = WHITE THEN -INFINITE ELSE INFINITE,
                               NoneMove),
                  Cur(b), depth, alpha_orig, beta_orig, ply_from_root)

\* the counters of an internal node
node_count(E, p, ply_from_root) ==
  Bump(Bump(E, "nodes_searched"),
       IF ply_from_root > 0 /\ p \in DOMAIN E.transposition_table
       THEN "tt_hits" ELSE "tt_misses")

minimax(E, b, depth, alpha, beta, ply_from_root) ==
  IF RepetitionGate(b, ply_from_root) THEN Ret(0, E)
  ELSE IF is_game_over(b)
  THEN Ret(evaluate_board(b, ply_from_root), Bump(E, "nodes_searched"))
  ELSE IF depth = 0 THEN quiescence(E, b, alpha, beta, ply_from_root, 0)
  ELSE node_search(node_count(E, Cur(b), ply_from_root), b, depth, alpha, beta,
                   ply_from_root, TTProbe(E, Cur(b), depth, alpha, beta, ply_from_root))

(***************************************************************************)
(* select_move                                                             *)
(***************************************************************************)
Root == Cur(board)
CurCall == log[Len(log)]

Idle == [pc |-> "idle"]

\* how often the body of the iterative deepening loop was entered, over all calls
RECURSIVE Entered(_)
Entered(l) == IF l = <<>> THEN 0 ELSE l[Len(l)].entered + Entered(SubSeq(l, 1, Len(l) - 1))

\* mode selection from the game phase
ModeOf(phase) == IF phase > ENDGAME_PHASE_THRESHOLD THEN "fixed" ELSE "timed"
MaxDepthOf(mode, E) == IF mode = "fixed" THEN MIDGAME_FIXED_DEPTH ELSE ENDGAME_MAX_DEPTH
\* a time limit in both modes
HasTimeLimit_Always(mode) == TRUE
HasTimeLimit(mode) == mode = "timed"
HasMinDepth(mode) == mode = "timed"

\* hard_time_limit is not None and (time.time() - start_time) >= hard_time_limit
TimeExceeded(s, c) == s.hard_time_limit /\ c
\* a time check at the top that does not wait for the minimum depth
BreakAtTop_NoMinimum(s, c) == TimeExceeded(s, c)
\* the time check at the top of an iteration breaks the loop
BreakAtTop(s, c) == TimeExceeded(s, c) /\ ~(s.min_depth /\ s.current_depth <= ENDGAME_MIN_DEPTH)
\* a time check before a root move that does not wait for the minimum depth
BreakAtMove_NoMinimum(s, c) == TimeExceeded(s, c)
\* the time check before a root move breaks the move loop
BreakAtMove(s, c) == TimeExceeded(s, c) /\ (~s.min_depth \/ s.current_depth > ENDGAME_MIN_DEPTH)

UseAspiration(current_depth, best_value) == current_depth >= 2 /\ ~best_value.none
WindowAlpha(use, best_value) == IF use THEN best_value.v - ASPIRATION_WINDOW ELSE -MATE_SCORE
WindowBeta(use, best_value) == IF use THEN best_value.v + ASPIRATION_WINDOW ELSE MATE_SCORE
WorstValue(turn) == IF turn = WHITE THEN -INFINITE ELSE INFINITE

\* an aspiration pass whose failure goes unnoticed
ResearchNeeded_Never(s) == FALSE
\* fail-low or fail-high of the aspiration pass
ResearchNeeded(s) ==
  /\ s.moves_searched >= s.total_moves /\ s.use_aspiration
  /\ (s.depth_best_value <= s.alpha_original \/ s.depth_best_value >= s.beta_original)

IsMate(v) == Abs(v) >= MATE_BOUND

\* a root update in which an equal score also replaces the best move
RootUpdate_TiesReplace(s, m, r, white) ==
  LET better == IF white THEN r.score >= s.depth_best_value
                ELSE r.score <= s.depth_best_value
      value == IF better THEN r.score ELSE s.depth_best_value
  IN [s |-> [s EXCEPT !.moves_searched = @ + 1,
                      !.i = @ + 1,
                      !.depth_best_value = value,
                      !.depth_best_move = IF better THEN m.mv ELSE @,
                      !.alpha = IF white THEN Max(@, value) ELSE @,
                      !.beta = IF white THEN @ ELSE Min(@, value)],
      eng |-> r.eng,
      value |-> r.score]
\* the root best after root move m returned r
RootUpdate(s, m, r, white) ==
  LET better == Better(white, r.score, s.depth_best_value)
      value == IF better THEN r.score ELSE s.depth_best_value
  IN [s |-> [s EXCEPT !.moves_searched = @ + 1,
                      !.i = @ + 1,
                      !.depth_best_value = value,
                      !.depth_best_move = IF better THEN m.mv ELSE @,
                      !.alpha = IF white THEN Max(@, value) ELSE @,
                      !.beta = IF white THEN @ ELSE Min(@, value)],
      eng |-> r.eng,
      value |-> r.score]

\* one root move searched and the root best updated
SearchRootMove(s, E, b) ==
  RootUpdate(s, s.legal_moves[s.i],
             minimax(E, push(b, s.legal_moves[s.i]), s.current_depth - 1,
                     s.alpha, s.beta, 0),
             Turn(Cur(b)) = WHITE)

NewIter(s) ==
  [depth |-> s.current_depth, use_aspiration |-> s.use_aspiration,
   alpha |-> s.alpha_original, beta |-> s.beta_original,
   searched |-> 0, broke |-> FALSE, first_score |-> 0, values |-> <<>>,
   research |-> FALSE, full_window |-> ~s.use_aspiration,
   completed |-> FALSE, committed |-> FALSE,
   move |-> NoneMove, score |-> 0]
LogIter(f, v) == [log EXCEPT ![Len(log)].iters[Len(log[Len(log)].iters)][f] = v]
CurIter == CurCall.iters[Len(CurCall.iters)]
\* the value a root move received, and whether the position it produced was
\* a repetition or a claimable draw
LogValue(l, s, b, value) ==
  [l EXCEPT ![Len(l)].iters[Len(l[Len(l)].iters)].values =
     Append(@, [move |-> s.legal_moves[s.i].mv,
                drawn |-> (is_repetition(push(b, s.legal_moves[s.i]), 2)
                             \/ can_claim_draw(push(b, s.legal_moves[s.i]))),
                value |-> value])]

\* def select_move(...): up to the iterative deepening loop
Call(target_depth) ==
  /\ sm.pc = "idle"
  /\ Len(log) < MaxCalls
  /\ LET mode == ModeOf(calculate_game_phase(Root))
     IN /\ sm' = [pc |-> "iter", mode |-> mode, target_depth |-> target_depth,
                  max_depth |-> MaxDepthOf(mode, engine),
                  hard_time_limit |-> HasTimeLimit(mode),
                  min_depth |-> HasMinDepth(mode),
                  current_depth |-> 1,
                  best_move |-> NoneMove, best_value |-> NoneScore,
                  legal_moves |-> <<>>, i |-> 0,
                  alpha |-> 0, beta |-> 0, use_aspiration |-> FALSE,
                  alpha_original |-> 0, beta_original |-> 0,
                  depth_best_move |-> NoneMove, depth_best_value |-> 0,
                  moves_searched |-> 0, total_moves |-> 0,
                  research_needed |-> FALSE, completed |-> FALSE]
        /\ log' = Append(log, [board |-> board, mode |-> mode,
                               target_depth |-> target_depth,
                               fresh |-> (engine = clear_tt(engine)),
                               history_sum |-> HistorySum(engine, MoveSquares),
                               time_checks |-> 0, late |-> FALSE, entered |-> 0,
                               iters |-> <<>>, returned |-> FALSE,
                               result |-> [shape |-> "none yet"]])
  /\ clock' = FALSE
  /\ UNCHANGED <<game, board, engine, result>>

\* the time passes the limit (at once, when the limit is zero or negative)
Expire ==
  /\ sm.pc # "idle"
  /\ ~clock
  /\ clock' = TRUE
  /\ UNCHANGED <<game, board, engine, sm, result, log>>

\* top of the loop body: time check, counters, legal moves, ordering, window
IterStart ==
  /\ sm.pc = "iter"
  /\ (sm.mode = "timed" /\ sm.current_depth > MaxTimedDepth) => clock
  /\ Entered(log) < MaxIterations
  /\ LET checked == [log EXCEPT ![Len(log)].time_checks =
                        @ + (IF sm.hard_time_limit THEN 1 ELSE 0),
                                ![Len(log)].late =
                        @ \/ (sm.current_depth = 1 /\ TimeExceeded(sm, clock)),
                                ![Len(log)].entered = @ + 1]
     IN IF BreakAtTop(sm, clock)
        THEN /\ sm' = [sm EXCEPT !.pc = "return"]
             /\ log' = checked
             /\ UNCHANGED <<engine, result>>
        ELSE IF legal_moves(Root) = <<>>
        THEN \* return None
             /\ sm' = Idle
             /\ result' = [shape |-> "None"]
             /\ engine' = [engine EXCEPT !.stats = NoStats]
             /\ log' = [checked EXCEPT ![Len(log)].returned = TRUE,
                                       ![Len(log)].result = [shape |-> "None"]]
        ELSE LET E == [engine EXCEPT !.stats = NoStats]
                 moves == OrderRootMoves(E, Root)
                 use == UseAspiration(sm.current_depth, sm.best_value)
                 a == WindowAlpha(use, sm.best_value)
                 bt == WindowBeta(use, sm.best_value)
                 s1 == [sm EXCEPT !.pc = "moves", !.legal_moves = moves, !.i = 1,
                                  !.alpha = a, !.beta = bt, !.use_aspiration = use,
                                  !.alpha_original = a, !.beta_original = bt,
                                  !.depth_best_move = NoneMove,
                                  !.depth_best_value = WorstValue(Turn(Root)),
                                  !.moves_searched = 0, !.total_moves = Len(moves),
                                  !.research_needed = FALSE, !.completed = FALSE]
             IN /\ sm' = s1
                /\ engine' = E
                /\ log' = [checked EXCEPT ![Len(log)].iters = Append(@, NewIter(s1))]
                /\ UNCHANGED result
  /\ UNCHANGED <<game, board, clock>>

\* for move in legal_moves: time check, then the move is searched
RootMove ==
  /\ sm.pc = "moves"
  /\ LET checked == [log EXCEPT
                       ![Len(log)].time_checks = @ + (IF sm.hard_time_limit THEN 1 ELSE 0)]
     IN IF sm.i > Len(sm.legal_moves)
        THEN /\ sm' = [sm EXCEPT !.pc = "aspiration"]
             /\ UNCHANGED <<engine, log>>
        ELSE IF BreakAtMove(sm, clock)
        THEN /\ sm' = [sm EXCEPT !.pc = "aspiration"]
             /\ log' = [checked EXCEPT ![Len(log)].iters[Len(CurCall.iters)].broke = TRUE]
             /\ UNCHANGED engine
        ELSE \E r \in {SearchRootMove(sm, engine, board)} :
                /\ sm' = r.s
                /\ engine' = r.eng
                /\ log' = LogValue(checked, sm, board, r.value)
  /\ UNCHANGED <<game, board, clock, result>>

\* after the pass: completed, and whether the aspiration window failed
Aspiration ==
  /\ sm.pc = "aspiration"
  /\ LET completed == sm.moves_searched >= sm.total_moves
     IN IF ResearchNeeded(sm)
        THEN /\ sm' = [sm EXCEPT !.pc = "research", !.completed = completed,
                                 !.research_needed = TRUE,
                                 !.alpha = -MATE_SCORE, !.beta = MATE_SCORE,
                                 !.moves_searched = 0, !.i = 1,
                                 !.depth_best_value = WorstValue(Turn(Root))]
             /\ log' = [log EXCEPT ![Len(log)].iters[Len(CurCall.iters)] =
                          [@ EXCEPT !.research = TRUE,
                                    !.first_score = sm.depth_best_value]]
        ELSE /\ sm' = [sm EXCEPT !.pc = "commit", !.completed = completed]
             /\ log' = LogIter("first_score", sm.depth_best_value)
  /\ UNCHANGED <<game, board, engine, clock, result>>

\* the full-window re-search: for move in legal_moves, without time check
ReSearchMove ==
  /\ sm.pc = "research"
  /\ IF sm.i > Len(sm.legal_moves)
     THEN /\ sm' = [sm EXCEPT !.pc = "commit",
                              !.completed = (sm.moves_searched >= sm.total_moves)]
          /\ log' = LogIter("full_window", TRUE)
          /\ UNCHANGED engine
     ELSE \E r \in {SearchRootMove(sm, engine, board)} :
             /\ sm' = r.s
             /\ engine' = r.eng
             /\ log' = LogValue(log, sm, board, r.value)
  /\ UNCHANGED <<game, board, clock, result>>

\* stop conditions without the early exit on a mate score
StopAfter_NoMateExit(s, committed) ==
  \/ s.mode = "fixed" /\ ~s.completed
  \/ s.mode = "fixed" /\ s.current_depth >= MIDGAME_FIXED_DEPTH
  \/ /\ s.mode # "fixed" /\ s.completed /\ s.current_depth >= ENDGAME_MIN_DEPTH
     /\ s.target_depth # 0 /\ s.current_depth >= s.target_depth
  \/ s.current_depth >= s.max_depth
\* whether the loop is left after this iteration
StopAfter(s, committed) ==
  \/ s.mode = "fixed" /\ ~s.completed
  \/ committed /\ IsMate(s.depth_best_value)
  \/ s.mode = "fixed" /\ s.current_depth >= MIDGAME_FIXED_DEPTH
  \/ /\ s.mode # "fixed" /\ s.completed /\ s.current_depth >= ENDGAME_MIN_DEPTH
     /\ s.target_depth # 0 /\ s.current_depth >= s.target_depth
  \/ s.current_depth >= s.max_depth

\* a commit of whatever the iteration found, completed or not
Commits_Partial(s) == s.depth_best_move # NoneMove
\* whether the iteration's result becomes the result to return
Commits(s) ==
  /\ ~(s.mode = "fixed" /\ ~s.completed)
  /\ s.depth_best_move # NoneMove /\ s.completed

\* end of the loop body: commit or discard, early exit, stop conditions
Commit ==
  /\ sm.pc = "commit"
  /\ LET committed == Commits(sm)
         s1 == IF committed
               THEN [sm EXCEPT !.best_move = sm.depth_best_move,
                               !.best_value = Some(sm.depth_best_value)]
               ELSE sm
     IN /\ sm' = IF StopAfter(sm, committed)
                 THEN [s1 EXCEPT !.pc = "return"]
                 ELSE [s1 EXCEPT !.pc = "iter", !.current_depth = @ + 1]
        /\ log' = [log EXCEPT ![Len(log)].iters[Len(CurCall.iters)] =
                     [@ EXCEPT !.completed = sm.completed, !.committed = committed,
                               !.searched = sm.moves_searched,
                               !.move = sm.depth_best_move,
                               !.score = sm.depth_best_value]]
  /\ UNCHANGED <<game, board, engine, clock, result>>

\* return (best_move, best_value)
Return ==
  /\ sm.pc = "return"
  /\ result' = [shape |-> "pair", move |-> sm.best_move, score |-> sm.best_value]
  /\ sm' = Idle
  /\ log' = [log EXCEPT ![Len(log)].returned = TRUE,
                        ![Len(log)].result = result']
  /\ UNCHANGED <<game, board, engine, clock>>

\* engine.clear_tt() between calls
ClearTT ==
  /\ sm.pc = "idle"
  /\ engine # clear_tt(engine)
  /\ engine' = clear_tt(engine)
  /\ UNCHANGED <<game, board, sm, clock, result, log>>

\* the caller plays the returned move and the opponent replies
PlayMoves ==
  /\ sm.pc = "idle"
  /\ Len(log) >= 1
  /\ CurCall.board = board
  /\ result.shape = "pair" /\ result.move # NoneMove
  /\ LET i == IndexOfMove(legal_moves(Root), result.move)
         b1 == push(board, legal_moves(Root)[i])
     IN /\ i # 0
        /\ \E j \in DOMAIN legal_moves(Cur(b1)) :
             board' = push(b1, legal_moves(Cur(b1))[j])
  /\ UNCHANGED <<game, engine, sm, clock, result, log>>

Seeds == 0..(NumSeeds - 1)
Phases == {6, 14}
RootKinds == {"play", "checkmate", "stalemate"}
EngineDepths == {DEFAULT_DEPTH, MIDGAME_FIXED_DEPTH}
TargetDepths == {0, 6}

Init ==
  /\ game \in [seed : Seeds, white : BOOLEAN, phase : Phases, rootkind : RootKinds,
               target_depth : TargetDepths]
  /\ board = <<ROOT>>
  /\ engine \in {NewEngine(d) : d \in EngineDepths}
  /\ sm = Idle
  /\ clock = FALSE
  /\ result = [shape |-> "none yet"]
  /\ log = <<>>

Next ==
  \/ Call(game.target_depth)
  \/ Expire
  \/ IterStart
  \/ RootMove
  \/ Aspiration
  \/ ReSearchMove
  \/ Commit
  \/ Return
  \/ ClearTT
  \/ PlayMoves

Spec == Init /\ [][Next]_vars

(***************************************************************************)
(* The search alone: minimax with the full window on cleared tables, and   *)
(* the naive minimax it is compared with                                   *)
(***************************************************************************)
RECURSIVE SetMax(_)
SetMax(S) == LET x == CHOOSE y \in S : TRUE
             IN IF S = {x} THEN x ELSE Max(x, SetMax(S \ {x}))
RECURSIVE SetMin(_)
SetMin(S) == LET x == CHOOSE y \in S : TRUE
             IN IF S = {x} THEN x ELSE Min(x, SetMin(S \ {x}))

\* minimax without pruning and without table: the same draw gate and terminal
\* rule, the evaluator at depth 0
RECURSIVE NaiveMinimax(_, _, _)
NaiveMinimax(b, depth, ply_from_root) ==
  IF RepetitionGate(b, ply_from_root) THEN 0
  ELSE IF is_game_over(b) \/ depth = 0 THEN evaluate_board(b, ply_from_root)
  ELSE LET moves == legal_moves(Cur(b))
           values == {NaiveMinimax(push(b, moves[j]), depth - 1, ply_from_root + 1) :
                        j \in DOMAIN moves}
       IN IF Turn(Cur(b)) = WHITE THEN SetMax(values) ELSE SetMin(values)

\* a position where quiescence has nothing to search: not in check and
\* neither capture nor promotion among the legal moves
Quiet(p) == ~is_check(p) /\ TacticalMoves(p, FALSE) = <<>>

\* every position at depth 0 of the search tree is quiet
RECURSIVE QuietHorizon(_, _, _)
QuietHorizon(b, depth, ply_from_root) ==
  IF RepetitionGate(b, ply_from_root) \/ is_game_over(b) THEN TRUE
  ELSE IF depth = 0 THEN Quiet(Cur(b))
  ELSE \A j \in DOMAIN legal_moves(Cur(b)) :
         QuietHorizon(push(b, legal_moves(Cur(b))[j]), depth - 1, ply_from_root + 1)

\* clear_tt(), then minimax(board, depth, -100000, 100000) on a new board
FullWindowSearch ==
  /\ result.shape = "none yet"
  /\ \E p \in Positions, d \in 0..MaxSearchDepth :
       \E r \in {minimax([clear_tt(engine) EXCEPT !.stats = NoStats], <<p>>, d,
                         -MATE_SCORE, MATE_SCORE, 0)} :
         /\ board' = <<p>>
         /\ engine' = r.eng
         /\ result' = [shape |-> "score", depth |-> d, score |-> r.score]
  /\ UNCHANGED <<game, sm, clock, log>>

\* phases with delta pruning off (<= 4) and on
SearchPhases == {2, 6, 14}

InitSearch ==
  /\ game \in [seed : Seeds, white : BOOLEAN, phase : SearchPhases,
               rootkind : {"play"}, target_depth : {0}]
  /\ board = <<ROOT>>
  /\ engine = NewEngine(DEFAULT_DEPTH)
  /\ sm = Idle
  /\ clock = FALSE
  /\ result = [shape |-> "none yet"]
  /\ log = <<>>

SpecSearch == InitSearch /\ [][FullWindowSearch]_vars

(***************************************************************************)
(* What the calls made so far have returned                                *)
(***************************************************************************)
Calls == DOMAIN log
HasLegalMoves(b) == legal_moves(Cur(b)) # <<>>
IsLegalMove(b, mv) ==
  \E j \in DOMAIN legal_moves(Cur(b)) : legal_moves(Cur(b))[j].mv = mv

\* the iterations of call c that were committed
Committed(c) == SelectSeq(log[c].iters, LAMBDA it : it.committed)
\* the indices of the iterations of call c in which every root move was searched
CompletedIters(c) == {i \in DOMAIN log[c].iters : log[c].iters[i].completed}
\* the iteration of call c that ran last, and the deepest one it ran
LastIter(c) == log[c].iters[Len(log[c].iters)]
DeepestRun(c) == IF log[c].iters = <<>> THEN 0 ELSE LastIter(c).depth
\* the score committed before iteration i of call c (best_value at its start)
RECURSIVE PrevScore(_, _)
PrevScore(c, i) ==
  IF i <= 1 THEN NoneScore
  ELSE IF log[c].iters[i - 1].committed THEN Some(log[c].iters[i - 1].score)
  ELSE PrevScore(c, i - 1)

(***************************************************************************)
(* Properties of select_move                                               *)
(***************************************************************************)
\* C1: on a position with at least one legal move select_move returns a pair
\* of a legal move of that position and a non-null integer score, in fixed
\* and in timed mode, whenever the time limit is passed
C1_LegalMoveAndScore ==
  \A c \in Calls :
    (log[c].returned /\ HasLegalMoves(log[c].board)) =>
      /\ log[c].result.shape = "pair"
      /\ IsLegalMove(log[c].board, log[c].result.move)
      /\ ~log[c].result.score.none
      /\ log[c].result.score.v \in Int

\* a timed call whose limit was passed before its first time check has
\* returned a legal move and a score
C1_Witness ==
  \E c \in Calls :
    /\ log[c].returned /\ log[c].mode = "timed" /\ log[c].late
    /\ log[c].result.shape = "pair"
    /\ IsLegalMove(log[c].board, log[c].result.move)
    /\ ~log[c].result.score.none

\* C2 as stated: on a position without legal moves select_move returns a
\* pair, of the shape it returns on success, whose move and score are null
C2_NullPair ==
  \A c \in Calls :
    (log[c].returned /\ ~HasLegalMoves(log[c].board)) =>
      /\ log[c].result.shape = "pair"
      /\ log[c].result.move = NoneMove
      /\ log[c].result.score.none

\* a call on a position without legal moves returned the bare None
C2_Witness ==
  \E c \in Calls :
    /\ log[c].returned /\ ~HasLegalMoves(log[c].board)
    /\ log[c].result = [shape |-> "None"]

\* C4: two calls on the same position, each right after clear_tt, that
\* complete the same depth return the same move and the same score, and
\* commit the same result at every depth: nothing but the cleared tables
\* carries over from one call into the next
C4_SameResultAfterClear ==
  \A c1, c2 \in Calls :
    (/\ c1 < c2 /\ log[c1].returned /\ log[c2].returned
     /\ log[c1].fresh /\ log[c2].fresh
     /\ log[c1].board = log[c2].board
     /\ Len(Committed(c1)) = Len(Committed(c2))) =>
      /\ log[c1].result = log[c2].result
      /\ Committed(c1) = Committed(c2)

\* a call filled the tables, clear_tt emptied them, and the second call on
\* the same position completed the same five depths with the same result
C4_Witness ==
  /\ Len(log) = 2 /\ log[1].returned /\ log[2].returned
  /\ log[1].fresh /\ log[2].fresh /\ log[1].board = log[2].board
  /\ Len(Committed(1)) = MIDGAME_FIXED_DEPTH
  /\ Len(Committed(2)) = MIDGAME_FIXED_DEPTH
  /\ log[1].result = log[2].result /\ log[1].result.shape = "pair"
  /\ engine.transposition_table # EmptyTT

\* C5: only an iteration in which every root move was searched is
\* committed; an iteration the time check interrupted is not, and the call
\* returns the move and the score of the deepest completed iteration
C5_OnlyCompletedCommitted ==
  \A c \in Calls :
    /\ \A i \in DOMAIN log[c].iters :
         LET it == log[c].iters[i]
         IN /\ it.committed =>
                 (/\ it.completed /\ ~it.broke
                  /\ it.searched = Len(legal_moves(Cur(log[c].board))))
            /\ it.broke => ~it.completed
    /\ (log[c].returned /\ CompletedIters(c) # {}) =>
         LET deepest == log[c].iters[SetMax(CompletedIters(c))]
         IN /\ log[c].result.shape = "pair"
            /\ log[c].result.move = deepest.move
            /\ log[c].result.score = Some(deepest.score)

\* a call returned the result of depth 5 although the iteration of depth 6
\* had searched a root move and found another score before the time check
\* interrupted it
C5_Witness ==
  \E c \in Calls :
    /\ log[c].returned /\ Len(log[c].iters) = 6
    /\ LastIter(c).broke /\ LastIter(c).searched >= 1 /\ ~LastIter(c).committed
    /\ log[c].iters[5].committed
    /\ log[c].result.score = Some(log[c].iters[5].score)
    /\ LastIter(c).score # log[c].iters[5].score

\* C6 as stated: a timed call that returns a move for a position with legal
\* moves has completed the iteration of depth 5
C6_MinimumDepthAlways ==
  \A c \in Calls :
    (log[c].returned /\ log[c].mode = "timed" /\ HasLegalMoves(log[c].board)) =>
      \E i \in CompletedIters(c) : log[c].iters[i].depth = ENDGAME_MIN_DEPTH

\* C6 amended: a timed call is never interrupted by the time check in an
\* iteration of depth <= 5, and it returns with the iteration of depth 5
\* completed unless it committed a mate score (|score| >= 90000) at a
\* smaller depth, which ends the search at once
C6_MinimumDepthUnlessMate ==
  \A c \in Calls :
    log[c].mode = "timed" =>
      /\ \A i \in DOMAIN log[c].iters :
           log[c].iters[i].depth <= ENDGAME_MIN_DEPTH => ~log[c].iters[i].broke
      /\ (log[c].returned /\ HasLegalMoves(log[c].board)) =>
           \/ \E i \in CompletedIters(c) : log[c].iters[i].depth = ENDGAME_MIN_DEPTH
           \/ /\ LastIter(c).committed /\ IsMate(LastIter(c).score)
              /\ LastIter(c).depth < ENDGAME_MIN_DEPTH

\* a timed call whose limit was passed before its first time check ran all
\* of the depths 1 to 5 and returned the result of depth 5, no mate found
C6_Witness ==
  \E c \in Calls :
    /\ log[c].returned /\ log[c].mode = "timed" /\ log[c].late
    /\ Len(log[c].iters) = ENDGAME_MIN_DEPTH
    /\ LastIter(c).committed /\ ~IsMate(LastIter(c).score)
    /\ log[c].result.score = Some(LastIter(c).score)

\* C7: the mode is fixed exactly when the phase is above 12 and timed
\* exactly when it is at most 12; a call in fixed mode makes no time check,
\* so that no iteration of it is interrupted and, unless a mate score ends
\* it, it runs every depth to completion whatever the clock shows
C7_ModeByPhase ==
  \A c \in Calls :
    LET phase == calculate_game_phase(Cur(log[c].board))
    IN /\ log[c].mode = "fixed" <=> phase > ENDGAME_PHASE_THRESHOLD
       /\ log[c].mode = "timed" <=> phase <= ENDGAME_PHASE_THRESHOLD
       /\ log[c].mode = "fixed" =>
            /\ log[c].time_checks = 0
            /\ \A i \in DOMAIN log[c].iters : ~log[c].iters[i].broke
            /\ \A i \in DOMAIN log[c].iters :
                 i < Len(log[c].iters) => log[c].iters[i].committed
            /\ (log[c].returned /\ HasLegalMoves(log[c].board)) =>
                 LastIter(c).committed

\* a call in fixed mode ran its five iterations to completion and returned
\* while the time limit had been passed, without a time check
C7_Witness ==
  /\ clock /\ sm.pc = "idle" /\ Len(log) >= 1
  /\ CurCall.returned /\ CurCall.mode = "fixed" /\ CurCall.time_checks = 0
  /\ calculate_game_phase(Cur(CurCall.board)) > ENDGAME_PHASE_THRESHOLD
  /\ Len(CurCall.iters) = MIDGAME_FIXED_DEPTH
  /\ LastIter(Len(log)).committed

\* C8 as stated: in fixed mode the deepest iteration run has the depth the
\* engine was constructed with, unless a mate score stopped the search
C8_ConfiguredDepth ==
  \A c \in Calls :
    (/\ log[c].returned /\ log[c].mode = "fixed" /\ HasLegalMoves(log[c].board)
     /\ ~(LastIter(c).committed /\ IsMate(LastIter(c).score))) =>
      DeepestRun(c) = engine.depth

\* what the code does: the depth is 5 whatever the engine was constructed with
C8_Witness ==
  \E c \in Calls :
    /\ log[c].returned /\ log[c].mode = "fixed" /\ HasLegalMoves(log[c].board)
    /\ ~IsMate(LastIter(c).score)
    /\ engine.depth = DEFAULT_DEPTH
    /\ DeepestRun(c) = MIDGAME_FIXED_DEPTH
    /\ DeepestRun(c) # engine.depth

\* C9: an iteration of depth >= 2 that starts with a score s has the window
\* (s - 50, s + 50); it is searched again, once and with the full window,
\* exactly when the pass completed with a score outside of the open window,
\* and what it commits is then the score of the second search: a committed
\* score is inside (s - 50, s + 50) or comes from a full-window search
C9_AspirationRecovery ==
  \A c \in Calls : \A i \in DOMAIN log[c].iters :
    LET it == log[c].iters[i]
        s == PrevScore(c, i)
    IN /\ (it.depth >= 2 /\ ~s.none) =>
            /\ it.use_aspiration
            /\ it.alpha = s.v - ASPIRATION_WINDOW
            /\ it.beta = s.v + ASPIRATION_WINDOW
       /\ (it.depth < 2 \/ s.none) =>
            (~it.use_aspiration /\ it.alpha = -MATE_SCORE /\ it.beta = MATE_SCORE)
       /\ it.research => (it.use_aspiration /\ ~it.broke
                           /\ (it.first_score <= it.alpha \/ it.first_score >= it.beta))
       /\ (it.committed /\ it.use_aspiration) =>
            /\ it.research <=> (it.first_score <= it.alpha \/ it.first_score >= it.beta)
            /\ it.research <=> it.full_window
            /\ it.full_window \/ (it.alpha < it.score /\ it.score < it.beta)
            /\ ~it.research => it.score = it.first_score

\* an aspiration pass failed, the depth was searched again with the full
\* window, and the score committed lies outside of the aspiration window
C9_Witness ==
  \E c \in Calls : \E i \in DOMAIN log[c].iters :
    LET it == log[c].iters[i]
    IN /\ it.committed /\ it.use_aspiration /\ it.research /\ it.full_window
       /\ ~PrevScore(c, i).none
       /\ it.alpha = PrevScore(c, i).v - ASPIRATION_WINDOW
       /\ (it.score <= it.alpha \/ it.score >= it.beta)
       /\ ~IsMate(it.score)

\* C10: once an iteration is committed with |score| >= 90000 no deeper
\* iteration is started, and the call returns that move and that score
C10_MateEndsSearch ==
  \A c \in Calls : \A i \in DOMAIN log[c].iters :
    LET it == log[c].iters[i]
    IN (it.committed /\ IsMate(it.score)) =>
         /\ i = Len(log[c].iters)
         /\ log[c].entered = i
         /\ (c = Len(log) /\ ~log[c].returned) => sm.pc = "return"
         /\ log[c].returned =>
              /\ log[c].result.shape = "pair"
              /\ log[c].result.move = it.move
              /\ log[c].result.score = Some(it.score)

\* a call returned a mate score from an iteration below depth 5
C10_Witness ==
  \E c \in Calls :
    /\ log[c].returned /\ log[c].iters # <<>>
    /\ LastIter(c).committed /\ IsMate(LastIter(c).score)
    /\ LastIter(c).depth < MIDGAME_FIXED_DEPTH
    /\ log[c].result.move = LastIter(c).move
    /\ log[c].result.score = Some(LastIter(c).score)

(***************************************************************************)
(* Properties of the search                                                *)
(***************************************************************************)
\* C3 as stated: from cleared tables the full-window search of depth d <= 4
\* returns the score of the naive minimax of depth d (same evaluator, same
\* terminal rules, no pruning, no table)
C3_EqualsNaive ==
  (result.shape = "score" /\ result.depth <= 4) =>
    result.score = NaiveMinimax(board, result.depth, 0)

\* C3 amended: the two scores are equal when every position at the horizon
\* of the search is quiet; at any other horizon position the engine returns
\* the value of its quiescence search, not the evaluation
C3_EqualsNaiveOnQuietHorizon ==
  (result.shape = "score" /\ result.depth <= 4
     /\ QuietHorizon(board, result.depth, 0)) =>
    result.score = NaiveMinimax(board, result.depth, 0)

\* a search of depth 3 or 4 with a quiet horizon that cut branches off and
\* filled the table
C3_Witness ==
  /\ result.shape = "score" /\ result.depth \in {3, 4}
  /\ ~is_game_over(board)
  /\ QuietHorizon(board, result.depth, 0)
  /\ engine.stats.alpha_cutoffs > 0
  /\ engine.transposition_table # EmptyTT
  /\ result.score = NaiveMinimax(board, result.depth, 0)
  /\ result.score # 0

(***************************************************************************)
(* Mate scores and the distance to the mate                                *)
(***************************************************************************)
\* mate_in_plies of a mate score, as a caller computes it
MateInPlies(score) == MATE_SCORE - Abs(score)

\* some line of n legal moves from position p ends in a checkmate of loser
RECURSIVE CheckmateAfter(_, _, _)
CheckmateAfter(p, n, loser) ==
  IF n = 0 THEN is_checkmate(p) /\ Turn(p) = loser
  ELSE \E j \in DOMAIN legal_moves(p) : CheckmateAfter(legal_moves(p)[j].dest, n - 1, loser)

\* C11 as stated: when select_move returns a mate score, 100000 - |score| is
\* the number of moves from the position given to select_move to a checkmate
\* position: a line of that many legal moves from the root ends in checkmate
C11_MateDistance ==
  \A c \in Calls :
    (/\ log[c].returned /\ log[c].result.shape = "pair"
     /\ ~log[c].result.score.none /\ IsMate(log[c].result.score.v)) =>
      CheckmateAfter(Cur(log[c].board), MateInPlies(log[c].result.score.v),
                     IF log[c].result.score.v > 0 THEN BLACK ELSE WHITE)

\* what the code does: the returned move checkmates, one ply from the root,
\* and the score returned says mate in 0 plies
C11_Witness ==
  \E c \in Calls :
    /\ log[c].returned /\ log[c].result.shape = "pair"
    /\ ~log[c].result.score.none /\ MateInPlies(log[c].result.score.v) = 0
    /\ \E j \in DOMAIN legal_moves(Cur(log[c].board)) :
         /\ legal_moves(Cur(log[c].board))[j].mv = log[c].result.move
         /\ is_checkmate(legal_moves(Cur(log[c].board))[j].dest)

(***************************************************************************)
(* select_move in the middle of a game: the caller has replayed the moves  *)
(* of the game on a new board before it asks for a move                    *)
(***************************************************************************)
ReplayPlies == 5

\* the boards after n moves of a game that is not over
RECURSIVE Lines(_)
Lines(n) ==
  IF n = 0 THEN {<<ROOT>>}
  ELSE UNION {{push(b, legal_moves(Cur(b))[j]) : j \in DOMAIN legal_moves(Cur(b))} :
                b \in {x \in Lines(n - 1) : ~is_game_over(x)}}

InitReplay ==
  /\ game \in [seed : Seeds, white : BOOLEAN, phase : Phases, rootkind : {"play"},
               target_depth : {0}]
  /\ board \in {b \in Lines(ReplayPlies) : ~is_game_over(b)}
  /\ engine = NewEngine(MIDGAME_FIXED_DEPTH)
  /\ sm = Idle
  /\ clock = FALSE
  /\ result = [shape |-> "none yet"]
  /\ log = <<>>

SpecReplay == InitReplay /\ [][Next]_vars

\* C12 as stated, for the positions one move below the root: a root move
\* that produces a repetition (>= 2 occurrences) or a claimable draw receives
\* the value 0 from the search
C12_RootMoveIntoDrawIsZero ==
  \A c \in Calls : \A i \in DOMAIN log[c].iters :
    \A k \in DOMAIN log[c].iters[i].values :
      log[c].iters[i].values[k].drawn => log[c].iters[i].values[k].value = 0

\* what the code does: a root move repeated a position of the game and was
\* searched like any other move, to a value that is not 0
C12_Witness ==
  \E c \in Calls : \E i \in DOMAIN log[c].iters :
    \E k \in DOMAIN log[c].iters[i].values :
      /\ log[c].iters[i].values[k].drawn
      /\ log[c].iters[i].values[k].value # 0
      /\ \E n \in 1..(Len(log[c].board) - 1) :
           \E j \in DOMAIN legal_moves(Cur(log[c].board)) :
             /\ legal_moves(Cur(log[c].board))[j].mv = log[c].iters[i].values[k].move
             /\ legal_moves(Cur(log[c].board))[j].dest = log[c].board[n]

(***************************************************************************)
(* The transposition table alone: results of main-search nodes are stored  *)
(* one after the other                                                     *)
(***************************************************************************)
MaxStoreDepth == 1
StoreKeys == {1, 2}
\* the end of a main-search node: flag, normalization, replacement policy
StoreNode ==
  \* the results of four nodes: score, ply, the window of the call, best move
  LET StoreResults ==
        {[score |-> 0, ply |-> 0, alpha |-> -ASPIRATION_WINDOW, beta |-> ASPIRATION_WINDOW,
          mv |-> [from |-> 1, to |-> 9, promotion |-> FALSE]],
         [score |-> 99990, ply |-> 2, alpha |-> -ASPIRATION_WINDOW, beta |-> ASPIRATION_WINDOW,
          mv |-> [from |-> 1, to |-> 9, promotion |-> FALSE]],
         [score |-> -99990, ply |-> 0, alpha |-> -ASPIRATION_WINDOW, beta |-> ASPIRATION_WINDOW,
          mv |-> NoneMove],
         [score |-> 99990, ply |-> 0, alpha |-> -MATE_SCORE, beta |-> MATE_SCORE,
          mv |-> [from |-> 2, to |-> 10, promotion |-> FALSE]]}
  IN
  \E h \in StoreKeys, depth \in 0..MaxStoreDepth, n \in StoreResults :
    /\ engine' = TTStore(engine, h, depth, n.score, n.alpha, n.beta, n.ply, n.mv)
    /\ result' = [shape |-> "store", before |-> engine.transposition_table, key |-> h,
                  entry |-> [score |-> Normalize(n.score, n.ply), depth |-> depth,
                             flag |-> TTFlag(n.score, n.alpha, n.beta),
                             best_move |-> n.mv]]
    /\ UNCHANGED <<game, board, sm, clock, log>>

InitStore ==
  /\ game = [seed |-> 0, white |-> TRUE, phase |-> PHASE_MAX, rootkind |-> "play",
             target_depth |-> 0]
  /\ board = <<ROOT>>
  /\ engine = NewEngine(DEFAULT_DEPTH)
  /\ sm = Idle
  /\ clock = FALSE
  /\ result = [shape |-> "none yet"]
  /\ log = <<>>

SpecStore == InitStore /\ [][StoreNode]_vars

\* C13: a store for a key without entry inserts the new entry; over an
\* entry of smaller depth it replaces; over an entry of equal or greater
\* depth it replaces only when the new flag is Exact and the old one is not,
\* and otherwise the old entry stays as it was; no other key is touched
C13_ReplacementPolicy ==
  result.shape = "store" =>
    LET old == result.before
        h == result.key
        new == result.entry
        tt == engine.transposition_table
    IN /\ DOMAIN tt = (DOMAIN old) \cup {h}
       /\ \A k \in DOMAIN old : k # h => tt[k] = old[k]
       /\ h \notin DOMAIN old => tt[h] = new
       /\ (h \in DOMAIN old /\ old[h].depth < new.depth) => tt[h] = new
       /\ (h \in DOMAIN old /\ old[h].depth >= new.depth) =>
            IF new.flag = TT_EXACT /\ old[h].flag # TT_EXACT
            THEN tt[h] = new
            ELSE tt[h] = old[h]

\* a result of smaller depth whose flag is not Exact was stored over an
\* entry, which stayed as it was, while the table holds another key
C13_Witness ==
  /\ result.shape = "store"
  /\ result.key \in DOMAIN result.before
  /\ result.before[result.key].depth > result.entry.depth
  /\ result.entry.flag # TT_EXACT
  /\ result.entry.score # result.before[result.key].score
  /\ engine.transposition_table[result.key] = result.before[result.key]
  /\ DOMAIN engine.transposition_table = StoreKeys

(***************************************************************************)
(* The normalization of mate scores alone: a score is normalized as the    *)
(* store does and de-normalized as the probe does, at the same ply         *)
(***************************************************************************)
MaxNormPly == 6

\* stored_score of the store
NormalizeScore ==
  /\ result.shape = "score"
  /\ result' = [shape |-> "stored", s |-> result.s, p |-> result.p,
                stored |-> Normalize(result.s, result.p)]
  /\ UNCHANGED <<game, board, engine, sm, clock, log>>

\* tt_score of the probe
DeNormalizeScore ==
  /\ result.shape = "stored"
  /\ result' = [shape |-> "probed", s |-> result.s, p |-> result.p,
                stored |-> result.stored,
                back |-> DeNormalize(result.stored, result.p)]
  /\ UNCHANGED <<game, board, engine, sm, clock, log>>

InitNormalize ==
  /\ game = [seed |-> 0, white |-> TRUE, phase |-> PHASE_MAX, rootkind |-> "play",
             target_depth |-> 0]
  /\ board = <<ROOT>>
  /\ engine = NewEngine(DEFAULT_DEPTH)
  /\ sm = Idle
  /\ clock = FALSE
  /\ result \in [shape : {"score"}, s : {-MATE_SCORE, -99999, -99990, -MATE_BOUND - 1, -MATE_BOUND,
                      -MATE_BOUND + 1, -500, -1, 0, 1, 500, MATE_BOUND - 1,
                      MATE_BOUND, MATE_BOUND + 1, 99990, 99999, MATE_SCORE},
                 p : 0..MaxNormPly]
  /\ log = <<>>

NextNormalize == NormalizeScore \/ DeNormalizeScore

SpecNormalize == InitNormalize /\ [][NextNormalize]_vars

\* C14: the store adds the ply to a White-mate score and subtracts it from
\* a Black-mate score, the probe at the same ply gives the score back, and
\* both leave a score that is not a mate score as it is
C14_RoundTrip ==
  /\ result.shape \in {"stored", "probed"} =>
       /\ result.s > MATE_BOUND => result.stored = result.s + result.p
       /\ result.s < -MATE_BOUND => result.stored = result.s - result.p
       /\ Abs(result.s) <= MATE_BOUND => result.stored = result.s
  /\ result.shape = "probed" =>
       /\ result.back = result.s
       /\ Abs(result.s) <= MATE_BOUND => result.back = result.stored

\* a mate score was shifted by a ply above 0 and came back
C14_Witness ==
  /\ result.shape = "probed"
  /\ IsMate(result.s) /\ result.p > 0
  /\ result.stored # result.s
  /\ result.back = result.s

(***************************************************************************)
(* Stored scores and the ply at which a position is searched               *)
(***************************************************************************)
MaxShift == 2

\* the table after the search of the state, had it started at ply q
TableAtPly(q) ==
  minimax([clear_tt(engine) EXCEPT !.stats = NoStats], board, result.depth,
          -MATE_SCORE, MATE_SCORE, q).eng.transposition_table

\* C15 as stated: every score stored in the table is within
\* [-100000, +100000], and a position is stored with the same score at
\* whatever ply the search that reached it started
C15_StoredScoresPositionRelative ==
  result.shape = "score" =>
    /\ \A h \in DOMAIN engine.transposition_table :
         /\ engine.transposition_table[h].score >= -MATE_SCORE
         /\ engine.transposition_table[h].score <= MATE_SCORE
    /\ \A q \in 1..MaxShift :
         \A h \in (DOMAIN engine.transposition_table) \cap (DOMAIN TableAtPly(q)) :
           TableAtPly(q)[h].score = engine.transposition_table[h].score

\* what the code does: after a mate one move away gave the window a mate
\* bound, a node two plies deeper stored that bound plus its ply
C15_Witness ==
  /\ result.shape = "score" /\ result.score = MATE_SCORE - 1
  /\ \E h \in DOMAIN engine.transposition_table :
       /\ engine.transposition_table[h].score > MATE_SCORE
       /\ engine.transposition_table[h].flag = TT_UPPERBOUND

(***************************************************************************)
(* The killer and history tables alone: beta cutoffs of the main search,   *)
(* one after the other, and clear_tt                                       *)
(***************************************************************************)
MaxCutoffs == 3
CutoffPlies == {0, 1}

\* if beta <= alpha: the counter, the history table and the killers
CutoffAt ==
  \* three quiet moves, a capture and a promotion
  LET CutoffDepths == {1, 2}
      CutoffMoves ==
        {[mv |-> [from |-> 1, to |-> 9, promotion |-> FALSE], dest |-> ROOT, capture |-> FALSE,
          ep |-> FALSE, victim |-> "none", attacker |-> "N"],
         [mv |-> [from |-> 2, to |-> 10, promotion |-> FALSE], dest |-> ROOT, capture |-> FALSE,
          ep |-> FALSE, victim |-> "none", attacker |-> "R"],
         [mv |-> [from |-> 3, to |-> 11, promotion |-> FALSE], dest |-> ROOT, capture |-> FALSE,
          ep |-> FALSE, victim |-> "none", attacker |-> "Q"],
         [mv |-> [from |-> 0, to |-> 8, promotion |-> FALSE], dest |-> ROOT, capture |-> TRUE,
          ep |-> FALSE, victim |-> "P", attacker |-> "B"],
         [mv |-> [from |-> 0, to |-> 9, promotion |-> TRUE], dest |-> ROOT, capture |-> FALSE,
          ep |-> FALSE, victim |-> "none", attacker |-> "P"]}
  IN
  /\ engine.stats.alpha_cutoffs < MaxCutoffs
  /\ \E m \in CutoffMoves, depth \in CutoffDepths, ply \in CutoffPlies :
       /\ engine' = OnCutoff(engine, m, depth, ply)
       /\ result' = [shape |-> "cutoff", m |-> m, depth |-> depth, ply |-> ply,
                     before |-> engine]
       /\ log' = IF IsQuiet(m) THEN Append(log, [ply |-> ply, mv |-> m.mv]) ELSE log
  /\ UNCHANGED <<game, board, sm, clock>>

\* engine.clear_tt()
ClearTables ==
  /\ engine' = clear_tt(engine)
  /\ result' = [shape |-> "clear", before |-> engine]
  /\ log' = <<>>
  /\ UNCHANGED <<game, board, sm, clock>>

InitCutoff ==
  /\ game = [seed |-> 0, white |-> TRUE, phase |-> PHASE_MAX, rootkind |-> "play",
             target_depth |-> 0]
  /\ board = <<ROOT>>
  /\ engine = NewEngine(DEFAULT_DEPTH)
  /\ sm = Idle
  /\ clock = FALSE
  /\ result = [shape |-> "none yet"]
  /\ log = <<>>

NextCutoff == CutoffAt \/ ClearTables

SpecCutoff == InitCutoff /\ [][NextCutoff]_vars

\* the quiet cutoff moves at ply p since the last clear_tt, oldest first
QuietCutoffs(p) == SelectSeq(log, LAMBDA e : e.ply = p)

\* C16: right after a beta cutoff by a quiet move m at ply p, m is in one
\* of the two killer slots of ply p (the primary); a move that caused a
\* quiet cutoff at ply p is in one of the two slots of ply p as long as at
\* most one other quiet move caused a cutoff at that ply after it; a cutoff
\* at one ply does not touch the slots of another ply
C16_KillerSlots ==
  /\ \A p \in CutoffPlies :
       \A i \in DOMAIN QuietCutoffs(p) :
         LET s == QuietCutoffs(p)
             m == s[i].mv
             \* the index of the last cutoff by m, the distinct moves after it
             last == CHOOSE n \in DOMAIN s :
                       s[n].mv = m /\ \A k \in DOMAIN s : s[k].mv = m => k <= n
             LaterMoves == {s[k].mv : k \in {n \in DOMAIN s : n > last}}
         IN /\ i = Len(s) => engine.killer_moves[p][1] = m
            /\ Cardinality(LaterMoves) <= 1 =>
                 (engine.killer_moves[p][1] = m \/ engine.killer_moves[p][2] = m)
  /\ (result.shape = "cutoff" /\ IsQuiet(result.m)) =>
       /\ engine.killer_moves[result.ply][1] = result.m.mv
          \/ engine.killer_moves[result.ply][2] = result.m.mv
       /\ \A p \in 0..(MAX_PLY - 1) :
            p # result.ply => engine.killer_moves[p] = result.before.killer_moves[p]

\* three cutoffs by quiet moves at one ply: the second of them moved to the
\* secondary slot when the third came, and the first was displaced
C16_Witness ==
  \E p \in CutoffPlies :
    /\ Len(QuietCutoffs(p)) = 3
    /\ Cardinality({QuietCutoffs(p)[i].mv : i \in 1..3}) = 3
    /\ engine.killer_moves[p] = <<QuietCutoffs(p)[3].mv, QuietCutoffs(p)[2].mv>>

(***************************************************************************)
(* The history table across select_move calls                              *)
(***************************************************************************)
\* C17: every history entry is a non-negative integer, and a beta cutoff
\* of the main search adds depth * depth to the entry of a quiet move and
\* nothing else; a step of the engine other than clear_tt lowers no entry,
\* within a call and from one select_move call to the next
C17_HistoryMonotone ==
  /\ []( /\ \A f \in 0..63 :
              \/ engine.history_table[f] = EmptyHistory[f]
              \/ \A t \in 0..63 : engine.history_table[f][t] \in Nat
         /\ sm.pc = "moves" =>
              \A j \in DOMAIN sm.legal_moves : \A depth \in 1..sm.current_depth :
                LET m == sm.legal_moves[j]
                    after == OnCutoff(engine, m, depth, 0).history_table
                IN /\ after[m.mv.from][m.mv.to] =
                        engine.history_table[m.mv.from][m.mv.to]
                          + (IF IsQuiet(m) THEN depth * depth ELSE 0)
                   /\ [after EXCEPT ![m.mv.from][m.mv.to] =
                         engine.history_table[m.mv.from][m.mv.to]] = engine.history_table )
  /\ [][ \/ sm.pc = "idle" /\ engine' = clear_tt(engine)
         \/ \A f \in 0..63 :
              \/ engine'.history_table[f] = engine.history_table[f]
              \/ \A t \in 0..63 : engine'.history_table[f][t] >= engine.history_table[f][t] ]_vars

\* a second call without clear_tt in between started with the history of
\* the first call and added to it
C17_Witness ==
  /\ Len(log) = 2 /\ log[1].returned /\ log[2].returned
  /\ ~log[2].fresh /\ log[2].history_sum > 0
  /\ HistorySum(engine, MoveSquares) > log[2].history_sum

(***************************************************************************)
(* clear_tt after searches                                                 *)
(***************************************************************************)
\* the three tables of engine E are those of a newly constructed engine
TablesAsNew(E) ==
  /\ E.transposition_table = NewEngine(E.depth).transposition_table
  /\ E.killer_moves = NewEngine(E.depth).killer_moves
  /\ E.history_table = NewEngine(E.depth).history_table

\* C18: after clear_tt between two select_move calls, whatever was searched before, the transposition
\* table is empty, both killer slots of all 128 plies are none and every
\* history entry is 0, as in a newly constructed engine
C18_ClearResetsTables ==
  [][(sm.pc = "idle" /\ sm' = sm /\ engine' # engine) =>
       /\ TablesAsNew(engine')
       /\ DOMAIN engine'.transposition_table = {}
       /\ DOMAIN engine'.killer_moves = 0..127
       /\ \A p \in 0..127 : engine'.killer_moves[p] = <<NoneMove, NoneMove>>
       /\ \A f \in 0..63 : engine'.history_table[f] = [t \in 0..63 |-> 0]]_vars

\* a search looked positions up, stored them and moved killers in, and the
\* tables are as new afterwards
C18_Witness ==
  /\ sm.pc = "idle" /\ Len(log) >= 1 /\ CurCall.returned
  /\ Len(Committed(Len(log))) = MIDGAME_FIXED_DEPTH
  /\ engine.stats.tt_misses > 0 /\ engine.stats.alpha_cutoffs > 0
  /\ TablesAsNew(engine)

(***************************************************************************)
(* Positions as pieces on squares: board.piece_map() as a set of records   *)
(* [square, piece_type, color]; squares are 0..63 with a1 = 0, h8 = 63     *)
(***************************************************************************)
Piece(sq, t, c) == [square |-> sq, piece_type |-> t, color |-> c]

\* phase values without the knights
phase_values_NoKnights(t) ==
  CASE t = "P" -> 0 [] t = "N" -> 0 [] t = "B" -> 1
    [] t = "R" -> 2 [] t = "Q" -> 4 [] t = "K" -> 0
\* self.phase_values
phase_values(t) ==
  CASE t = "P" -> 0 [] t = "N" -> 1 [] t = "B" -> 1
    [] t = "R" -> 2 [] t = "Q" -> 4 [] t = "K" -> 0

\* phase after the loop over the pieces
RECURSIVE PhaseSum(_)
PhaseSum(pm) ==
  IF pm = {} THEN 0
  ELSE LET x == CHOOSE y \in pm : TRUE
       IN phase_values(x.piece_type) + PhaseSum(pm \ {x})

\* calculate_game_phase of a position with the pieces pm
PiecePhase(pm) == Min(PhaseSum(pm), PHASE_MAX)

\* a knight, bishop, rook or queen of either colour leaves the board
RemovePiece ==
  /\ result.shape \in {"position", "removed"}
  /\ \E x \in result.pieces :
       /\ x.piece_type \in {"N", "B", "R", "Q"}
       /\ result' = [shape |-> "removed", pieces |-> result.pieces \ {x},
                     before |-> result.pieces, piece |-> x,
                     phase |-> PiecePhase(result.pieces \ {x}),
                     phase_before |-> PiecePhase(result.pieces)]
  /\ UNCHANGED <<game, board, engine, sm, clock, log>>

InitPhase ==
  /\ game = [seed |-> 0, white |-> TRUE, phase |-> PHASE_MAX, rootkind |-> "play",
             target_depth |-> 0]
  /\ board = <<ROOT>>
  /\ engine = NewEngine(DEFAULT_DEPTH)
  /\ sm = Idle
  /\ clock = FALSE
  \* a position after promotions: five queens, two rooks, a knight, a bishop
  /\ result = [shape |-> "position", pieces |->
      {Piece(4, "K", WHITE), Piece(60, "K", BLACK), Piece(8, "P", WHITE), Piece(48, "P", BLACK),
       Piece(3, "Q", WHITE), Piece(57, "Q", WHITE), Piece(58, "Q", WHITE),
       Piece(59, "Q", BLACK), Piece(1, "Q", BLACK),
       Piece(0, "R", WHITE), Piece(63, "R", BLACK),
       Piece(6, "N", WHITE), Piece(61, "B", BLACK)}]
  /\ log = <<>>

SpecPhase == InitPhase /\ [][RemovePiece]_vars

\* C19 as stated: when the phase of a position is above 0, the phase
\* after the removal of a knight, bishop, rook or queen is strictly smaller
C19_PhaseStrictlyDecreases ==
  (result.shape = "removed" /\ result.phase_before > 0) =>
    result.phase < result.phase_before

\* C19 amended: the phase never grows by a removal; it is strictly smaller
\* when the material sum (N = 1, B = 1, R = 2, Q = 4, both colours) that is
\* left is below 24, as for every position with a sum of at most 24; while
\* the sum left is 24 or more the phase stays 24
C19_PhaseDecreasesBelowCap ==
  result.shape = "removed" =>
    /\ result.phase <= result.phase_before
    /\ PhaseSum(result.pieces) = PhaseSum(result.before) - phase_values(result.piece.piece_type)
    /\ PhaseSum(result.pieces) < PhaseSum(result.before)
    /\ PhaseSum(result.pieces) < PHASE_MAX => result.phase < result.phase_before
    /\ PhaseSum(result.before) <= PHASE_MAX => result.phase < result.phase_before
    /\ PhaseSum(result.pieces) >= PHASE_MAX =>
         (result.phase = PHASE_MAX /\ result.phase_before = PHASE_MAX)

\* a piece left a position with a sum of exactly 24 and the phase fell
C19_Witness ==
  /\ result.shape = "removed"
  /\ PhaseSum(result.before) = PHASE_MAX
  /\ result.phase_before = PHASE_MAX
  /\ result.phase < PHASE_MAX
  /\ result.phase = PHASE_MAX - phase_values(result.piece.piece_type)

(***************************************************************************)
(* evaluate_board on pieces: PeSTO tables, material and the tapered blend  *)
(***************************************************************************)
\* flip_ranks: a table written rank 8 first becomes rank 1 first;
\* tables are indexed by square + 1
flip_ranks(pst) == [i \in 1..64 |-> pst[(7 - ((i - 1) \div 8)) * 8 + ((i - 1) % 8) + 1]]

\* the twelve PeSTO tables after flip_ranks, under their names
PST ==
  [
    PAWN_MG |->
      flip_ranks(<<   0,    0,    0,    0,    0,    0,    0,    0,
                  98,  134,   61,   95,   68,  126,   34,  -11,
                  -6,    7,   26,   31,   65,   56,   25,  -20,
                 -14,   13,    6,   21,   23,   12,   17,  -23,
                 -27,   -2,   -5,   12,   17,    6,   10,  -25,
                 -26,   -4,   -4,  -10,    3,    3,   33,  -12,
                 -35,   -1,  -20,  -23,  -15,   24,   38,  -22,
                   0,    0,    0,    0,    0,    0,    0,    0>>),
    PAWN_EG |->
      flip_ranks(<<   0,    0,    0,    0,    0,    0,    0,    0,
                 178,  173,  158,  134,  147,  132,  165,  187,
                  94,  100,   85,   67,   56,   53,   82,   84,
                  32,   24,   13,    5,   -2,    4,   17,   17,
                  13,    9,   -3,   -7,   -7,   -8,    3,   -1,
                   4,    7,   -6,    1,    0,   -5,   -1,   -8,
                  13,    8,    8,   10,   13,    0,    2,   -7,
                   0,    0,    0,    0,    0,    0,    0,    0>>),
    KNIGHT_MG |->
      flip_ranks(<<-167,  -89,  -34,  -49,   61,  -97,  -15, -107,
                 -73,  -41,   72,   36,   23,   62,    7,  -17,
                 -47,   60,   37,   65,   84,  129,   73,   44,
                  -9,   17,   19,   53,   37,   69,   18,   22,
                 -13,    4,   16,   13,   28,   19,   21,   -8,
                 -23,   -9,   12,   10,   19,   17,   25,  -16,
                 -29,  -53,  -12,   -3,   -1,   18,  -14,  -19,
                       -105,  -21,  -58,  -33,  -17,  -28,  -19,  -23>>),
    KNIGHT_EG |->
      flip_ranks(<< -58,  -38,  -13,  -28,  -31,  -27,  -63,  -99,
                 -25,   -8,  -25,   -2,   -9,  -25,  -24,  -52,
                 -24,  -20,   10,    9,   -1,   -9,  -19,  -41,
                 -17,    3,   22,   22,   22,   11,    8,  -18,
                 -18,   -6,   16,   25,   16,   17,    4,  -18,
                 -23,   -3,   -1,   15,   10,   -3,  -20,  -22,
                 -42,  -20,  -10,   -5,   -2,  -20,  -23,  -44,
                 -29,  -51,  -23,  -15,  -22,  -18,  -50,  -64>>),
    BISHOP_MG |->
      flip_ranks(<< -29,    4,  -82,  -37,  -25,  -42,    7,   -8,
                 -26,   16,  -18,  -13,   30,   59,   18,  -47,
                 -16,   37,   43,   40,   35,   50,   37,   -2,
                  -4,    5,   19,   50,   37,   37,    7,   -2,
                  -6,   13,   13,   26,   34,   12,   10,    4,
                   0,   15,   15,   15,   14,   27,   18,   10,
                   4,   15,   16,    0,    7,   21,   33,    1,
                 -33,   -3,  -14,  -21,  -13,  -12,  -39,  -21>>),
    BISHOP_EG |->
      flip_ranks(<< -14,  -21,  -11,   -8,   -7,   -9,  -17,  -24,
                  -8,   -4,    7,  -12,   -3,  -13,   -4,  -14,
                   2,   -8,    0,   -1,   -2,    6,    0,    4,
                  -3,    9,   12,    9,   14,   10,    3,    2,
                  -6,    3,   13,   19,    7,   10,   -3,   -9,
                 -12,   -3,    8,   10,   13,    3,   -7,  -15,
                 -14,  -18,   -7,   -1,    4,   -9,  -15,  -27,
                 -23,   -9,  -23,   -5,   -9,  -16,   -5,  -17>>),
    ROOK_MG |->
      flip_ranks(<<  32,   42,   32,   51,   63,    9,   31,   43,
                  27,   32,   58,   62,   80,   67,   26,   44,
                  -5,   19,   26,   36,   17,   45,   61,   16,
                 -24,  -11,    7,   26,   24,   35,   -8,  -20,
                 -36,  -26,  -12,   -1,    9,   -7,    6,  -23,
                 -45,  -25,  -16,  -17,    3,    0,   -5,  -33,
                 -44,  -16,  -20,   -9,   -1,   11,   -6,  -71,
                 -19,  -13,    1,   17,   16,    7,  -37,  -26>>),
    ROOK_EG |->
      flip_ranks(<<  13,   10,   18,   15,   12,   12,    8,    5,
                  11,   13,   13,   11,   -3,    3,    8,    3,
                   7,    7,    7,    5,    4,   -3,   -5,   -3,
                   4,    3,   13,    1,    2,    1,   -1,    2,
                   3,    5,    8,    4,   -5,   -6,   -8,  -11,
                  -4,    0,   -5,   -1,   -7,  -12,   -8,  -16,
                  -6,   -6,    0,    2,   -9,   -9,  -11,   -3,
                  -9,    2,    3,   -1,   -5,  -13,    4,  -20>>),
    QUEEN_MG |->
      flip_ranks(<< -28,    0,   29,   12,   59,   44,   43,   45,
                 -24,  -39,   -5,    1,  -16,   57,   28,   54,
                 -13,  -17,    7,    8,   29,   56,   47,   57,
                 -27,  -27,  -16,  -16,   -1,   17,   -2,    1,
                  -9,  -26,   -9,  -10,   -2,   -4,    3,   -3,
                 -14,    2,  -11,   -2,   -5,    2,   14,    5,
                 -35,   -8,   11,    2,    8,   15,   -3,    1,
                  -1,  -18,   -9,   10,  -15,  -25,  -31,  -50>>),
    QUEEN_EG |->
      flip_ranks(<<  -9,   22,   22,   27,   27,   19,   10,   20,
                 -17,   20,   32,   41,   58,   25,   30,    0,
                 -20,    6,    9,   49,   47,   35,   19,    9,
                   3,   22,   24,   45,   57,   40,   57,   36,
                 -18,   28,   19,   47,   31,   34,   39,   23,
                 -16,  -27,   15,    6,    9,   17,   10,    5,
                 -22,  -23,  -30,  -16,  -16,  -23,  -36,  -32,
                 -33,  -28,  -22,  -43,   -5,  -32,  -20,  -41>>),
    KING_MG |->
      flip_ranks(<< -65,   23,   16,  -15,  -56,  -34,    2,   13,
                  29,   -1,  -20,   -7,   -8,   -4,  -38,  -29,
                  -9,   24,    2,  -16,  -20,    6,   22,  -22,
                 -17,  -20,  -12,  -27,  -30,  -25,  -14,  -36,
                 -49,   -1,  -27,  -39,  -46,  -44,  -33,  -51,
                 -14,  -14,  -22,  -46,  -44,  -30,  -15,  -27,
                   1,    7,   -8,  -64,  -43,  -16,    9,    8,
                 -15,   36,   12,  -54,    8,  -28,   24,   14>>),
    KING_EG |->
      flip_ranks(<< -74,  -35,  -18,  -18,  -11,   15,    4,  -17,
                 -12,   17,   14,   17,   17,   38,   23,   11,
                  10,   17,   23,   15,   20,   45,   44,   13,
                  -8,   22,   24,   27,   26,   33,   26,    3,
                 -18,   -4,   21,   24,   27,   23,    9,  -11,
                 -19,   -3,   11,   21,   23,   16,    7,   -9,
                 -27,  -11,    4,   13,   14,    4,   -5,  -17,
                 -53,  -34,  -21,  -11,  -28,  -14,  -24,  -43>>)
  ]

PIECE_VALUE_MG(t) ==
  CASE t = "P" -> 82 [] t = "N" -> 337 [] t = "B" -> 365
    [] t = "R" -> 477 [] t = "Q" -> 1025 [] t = "K" -> 0
PIECE_VALUE_EG(t) ==
  CASE t = "P" -> 94 [] t = "N" -> 281 [] t = "B" -> 297
    [] t = "R" -> 512 [] t = "Q" -> 936 [] t = "K" -> 0

mg_table(t) ==
  CASE t = "P" -> PST.PAWN_MG [] t = "N" -> PST.KNIGHT_MG [] t = "B" -> PST.BISHOP_MG
    [] t = "R" -> PST.ROOK_MG [] t = "Q" -> PST.QUEEN_MG [] t = "K" -> PST.KING_MG
eg_table(t) ==
  CASE t = "P" -> PST.PAWN_EG [] t = "N" -> PST.KNIGHT_EG [] t = "B" -> PST.BISHOP_EG
    [] t = "R" -> PST.ROOK_EG [] t = "Q" -> PST.QUEEN_EG [] t = "K" -> PST.KING_EG

\* Black's tables read without the flip
square_mirror_Unflipped(sq) == sq
\* chess.square_mirror: the square on the same file, rank r becomes rank 9 - r
square_mirror(sq) == (7 - (sq \div 8)) * 8 + (sq % 8)

\* mg_score and eg_score after the loop over the pieces: White reads the
\* tables at its square, Black at the mirrored square and subtracts
RECURSIVE PieceMg(_)
PieceMg(pm) ==
  IF pm = {} THEN 0
  ELSE LET x == CHOOSE y \in pm : TRUE
           t == x.piece_type
           term == IF x.color = WHITE
                   THEN PIECE_VALUE_MG(t) + mg_table(t)[x.square + 1]
                   ELSE -(PIECE_VALUE_MG(t) + mg_table(t)[square_mirror(x.square) + 1])
       IN term + PieceMg(pm \ {x})
RECURSIVE PieceEg(_)
PieceEg(pm) ==
  IF pm = {} THEN 0
  ELSE LET x == CHOOSE y \in pm : TRUE
           t == x.piece_type
           term == IF x.color = WHITE
                   THEN PIECE_VALUE_EG(t) + eg_table(t)[x.square + 1]
                   ELSE -(PIECE_VALUE_EG(t) + eg_table(t)[square_mirror(x.square) + 1])
       IN term + PieceEg(pm \ {x})

\* mg_score * game_phase + eg_score * (24 - game_phase), before the division
PieceBlend(pm) == Tapered(PieceMg(pm), PieceEg(pm), PiecePhase(pm))

\* the blend divided with integer division, the tempo bonus added after
PieceEval_DivideThenTempo(pm, turn) == (PieceBlend(pm) \div PHASE_MAX) + Tempo(turn)
\* evaluate_board of a position that is not checkmate, stalemate or
\* insufficient material: int(blend / 24 + tempo)
PieceEval(pm, turn) == TruncDiv(PieceBlend(pm) + PHASE_MAX * Tempo(turn), PHASE_MAX)

\* the mirror of a position: colours swapped, ranks flipped
mirror(pm) ==
  {Piece((7 - (x.square \div 8)) * 8 + (x.square % 8), x.piece_type, ~x.color) : x \in pm}

\* Positions with the kings on g1 and g8, pawns on h2 and h7 and one more
\* piece a side on the a- to d-files: nobody is in check, both sides have
\* moves and mating material is on the board
EvalPositions ==
  LET ExtraTypes == {"P", "N", "R", "Q"}
      ExtraSquares == {9, 18, 24, 43, 42, 49}
  IN
  {{Piece(6, "K", WHITE), Piece(62, "K", BLACK), Piece(15, "P", WHITE), Piece(55, "P", BLACK),
    Piece(ws, wt, WHITE), Piece(bs, bt, BLACK)} :
     <<wt, ws, bt, bs>> \in {q \in ExtraTypes \X ExtraSquares \X ExtraTypes \X ExtraSquares :
                               q[2] # q[4]}}

\* evaluate_board of the position, of its mirror with the same side to
\* move and of its mirror with the other side to move
EvaluateMirror ==
  /\ result.shape = "position"
  /\ result' = [shape |-> "evaluated", pieces |-> result.pieces, turn |-> result.turn,
                blend |-> PieceBlend(result.pieces),
                mirror_blend |-> PieceBlend(mirror(result.pieces)),
                value |-> PieceEval(result.pieces, result.turn),
                mirror_value |-> PieceEval(mirror(result.pieces), result.turn),
                swapped_value |-> PieceEval(mirror(result.pieces), ~result.turn)]
  /\ UNCHANGED <<game, board, engine, sm, clock, log>>

InitEval ==
  /\ game = [seed |-> 0, white |-> TRUE, phase |-> PHASE_MAX, rootkind |-> "play",
             target_depth |-> 0]
  /\ board = <<ROOT>>
  /\ engine = NewEngine(DEFAULT_DEPTH)
  /\ sm = Idle
  /\ clock = FALSE
  /\ result \in [shape : {"position"}, pieces : EvalPositions, turn : BOOLEAN]
  /\ log = <<>>

SpecEval == InitEval /\ [][EvaluateMirror]_vars

MaxMatePly == 8

\* evaluate_board(board, ply) and evaluate_board(board, farther)
EvaluateMate ==
  /\ result.shape = "none yet"
  /\ \E ply \in 0..MaxMatePly : \E farther \in (ply + 1)..(MaxMatePly + 1) :
       result' = [shape |-> "mate", turn |-> Turn(Cur(board)), ply |-> ply,
                  farther |-> farther, value |-> evaluate_board(board, ply),
                  value_farther |-> evaluate_board(board, farther)]
  /\ UNCHANGED <<game, board, engine, sm, clock, log>>

SpecMate ==
  /\ game \in [seed : Seeds, white : BOOLEAN, phase : Phases, rootkind : {"checkmate"},
               target_depth : {0}]
  /\ board = <<ROOT>>
  /\ engine = NewEngine(DEFAULT_DEPTH)
  /\ sm = Idle
  /\ clock = FALSE
  /\ result = [shape |-> "none yet"]
  /\ log = <<>>
  /\ [][EvaluateMate]_vars

\* C22: on a checkmate position evaluate_board returns -100000 + ply with
\* White to move and 100000 - ply with Black to move; of two mates of the
\* same side the one nearer the root has the strictly larger absolute value
C22_MateScoreByPly ==
  result.shape = "mate" =>
    /\ result.value = IF result.turn = WHITE THEN -100000 + result.ply
                      ELSE 100000 - result.ply
    /\ result.value_farther = IF result.turn = WHITE THEN -100000 + result.farther
                              ELSE 100000 - result.farther
    /\ Abs(result.value) > Abs(result.value_farther)
    /\ (result.value > 0) = (result.value_farther > 0)

\* White is checkmated three plies from the root and five plies from it
C22_Witness ==
  /\ result.shape = "mate" /\ result.turn = WHITE
  /\ result.ply = 3 /\ result.farther = 5
  /\ result.value = -99997 /\ result.value_farther = -99995

(***************************************************************************)
(* lichess_bot: the main event loop, the game threads and the hunter       *)
(* thread around the one shared engine.  result holds is_playing, the      *)
(* holder of engine_lock (0: free) and, per game, the place of its thread  *)
(* and the number of its select_move calls.                                *)
(***************************************************************************)
MaxGames == 3
MaxBotMoves == 2

\* main, gameStart: a thread is started for the game, or the event skipped
StartsGameThread_Always(is_playing) == TRUE
StartsGameThread(is_playing) == ~is_playing
MaxReconnects == 1
\* a main that starts the thread without setting the flag
PlayingAfterStart_Unset(is_playing) == is_playing
\* main, before game_thread.start(): is_playing = True
PlayingAfterStart(is_playing) == TRUE

NextBot ==
  LET Games == 1..MaxGames
      pc == result.pc
      At(g, place) == [result EXCEPT !.pc[g] = place]
  IN
  /\ UNCHANGED <<game, board, engine, sm, clock, log>>
  /\ \E g \in Games :
       \* hunter_loop: a challenge goes out while the bot is idle; the game
       \* it leads to is announced by a gameStart event (games are numbered
       \* in the order of their first announcement)
       \/ /\ pc[g] = "none" /\ ~result.is_playing /\ (\A h \in 1..(g - 1) : pc[h] # "none")
          /\ result' = At(g, "announced")
       \* accept_challenge, or a gameStart for a game begun elsewhere
       \/ /\ pc[g] = "none" /\ (\A h \in 1..(g - 1) : pc[h] # "none")
          /\ result' = [At(g, "announced") EXCEPT !.external = TRUE]
       \* main, gameStart while playing: continue
       \/ /\ pc[g] = "announced" /\ ~StartsGameThread(result.is_playing)
          /\ result' = At(g, "skipped")
       \* main, gameStart: is_playing = True, game_thread.start()
       \/ /\ pc[g] = "announced" /\ StartsGameThread(result.is_playing)
          /\ result' = [At(g, "start") EXCEPT !.is_playing = PlayingAfterStart(@)]
       \* main: the event stream ends or raises, is connected again, and
       \* announces once more a game that has no thread
       \/ /\ pc[g] \in {"skipped", "done"} /\ result.reconnects < MaxReconnects
          /\ result' = [At(g, "announced") EXCEPT !.reconnects = @ + 1]
       \* play_game: engine.clear_tt() is entered
       \/ /\ pc[g] = "start"
          /\ result' = At(g, "clear_tt")
       \* play_game: engine.clear_tt() returns, the stream is read
       \/ /\ pc[g] = "clear_tt"
          /\ result' = At(g, "stream")
       \* handle_game_state, our turn: with engine_lock, select_move is entered
       \/ /\ pc[g] = "stream" /\ result.engine_lock = 0
          /\ result.moves[g] < MaxBotMoves
          /\ result' = [At(g, "select_move") EXCEPT !.engine_lock = g,
                                                    !.moves[g] = @ + 1]
       \* select_move returns or raises: the with block releases the lock;
       \* an exception leaves the stream loop
       \/ /\ pc[g] = "select_move"
          /\ \E place \in {"stream", "finally"} :
               result' = [At(g, place) EXCEPT !.engine_lock = 0]
       \* the game ends, the stream breaks or clear_tt raises
       \/ /\ pc[g] \in {"stream", "clear_tt"}
          /\ result' = At(g, "finally")
       \* finally: is_playing = False
       \/ /\ pc[g] = "finally"
          /\ result' = [At(g, "cleanup") EXCEPT !.is_playing = FALSE]
       \* finally: the game is removed from the dictionaries, the thread ends
       \* (moves counts the select_move calls of the game's running thread)
       \/ /\ pc[g] = "cleanup"
          /\ result' = [At(g, "done") EXCEPT !.moves[g] = 0]

SpecBot ==
  /\ game = [seed |-> 0, white |-> TRUE, phase |-> PHASE_MAX, rootkind |-> "play",
             target_depth |-> 0]
  /\ board = <<ROOT>>
  /\ engine = NewEngine(DEFAULT_DEPTH)
  /\ sm = Idle
  /\ clock = FALSE
  /\ result = [shape |-> "bot", is_playing |-> FALSE, engine_lock |-> 0, external |-> FALSE,
               pc |-> [g \in 1..MaxGames |-> "none"],
               moves |-> [g \in 1..MaxGames |-> 0], reconnects |-> 0]
  /\ log = <<>>
  /\ [][NextBot]_vars

\* C23: no game thread is inside engine.clear_tt() while another thread is
\* inside engine.select_move, and no two threads are inside select_move
C23_EngineCallsNeverOverlap ==
  result.shape = "bot" =>
    \A g, h \in 1..MaxGames :
      g # h => /\ ~(result.pc[g] = "clear_tt" /\ result.pc[h] = "select_move")
               /\ ~(result.pc[g] = "select_move" /\ result.pc[h] = "select_move")

\* two game threads alive at once: one clears the tables for its new game
\* while the thread of the game before, which called select_move, is still
\* in its cleanup
C23_Witness ==
  /\ result.shape = "bot"
  /\ \E g, h \in 1..MaxGames :
       /\ g # h
       /\ result.pc[g] = "clear_tt"
       /\ result.pc[h] = "cleanup" /\ result.moves[h] > 0

(***************************************************************************)
(* score_move after beta cutoffs of the main search: cutoffs by quiet      *)
(* moves fill the killer slots and the history table, then the moves of a  *)
(* position are scored at a ply.                                           *)
(***************************************************************************)
MaxScoreCutoffs == 4
MaxScoreDepth == 6

NextScore ==
  LET Quiet1 == [mv |-> [from |-> 6, to |-> 21, promotion |-> FALSE], dest |-> ROOT,
                 capture |-> FALSE, ep |-> FALSE, victim |-> "none", attacker |-> "N"]
      Quiet2 == [mv |-> [from |-> 0, to |-> 8, promotion |-> FALSE], dest |-> ROOT,
                 capture |-> FALSE, ep |-> FALSE, victim |-> "none", attacker |-> "K"]
      Quiet3 == [mv |-> [from |-> 3, to |-> 11, promotion |-> FALSE], dest |-> ROOT,
                 capture |-> FALSE, ep |-> FALSE, victim |-> "none", attacker |-> "Q"]
      QxP == [mv |-> [from |-> 3, to |-> 27, promotion |-> FALSE], dest |-> ROOT,
              capture |-> TRUE, ep |-> FALSE, victim |-> "P", attacker |-> "Q"]
      PxQ == [mv |-> [from |-> 12, to |-> 21, promotion |-> FALSE], dest |-> ROOT,
              capture |-> TRUE, ep |-> FALSE, victim |-> "Q", attacker |-> "P"]
      Promo == [mv |-> [from |-> 52, to |-> 60, promotion |-> TRUE], dest |-> ROOT,
                capture |-> FALSE, ep |-> FALSE, victim |-> "none", attacker |-> "P"]
      Moves == <<Quiet1, Quiet2, Quiet3, QxP, PxQ, Promo>>
  IN
  \* minimax, if beta <= alpha: history and killers of a quiet move
  \/ /\ engine.stats.alpha_cutoffs < MaxScoreCutoffs
     /\ \E i \in 1..3, depth \in {2, MaxScoreDepth}, ply \in {0, 1} :
          engine' = OnCutoff(engine, Moves[i], depth, ply)
     /\ UNCHANGED <<game, board, sm, clock, result, log>>
  \* sorted(moves, key=lambda m: self.score_move(board, m, ply))
  \/ /\ \E ply \in {0, 1} :
          result' = [shape |-> "scores", ply |-> ply, moves |-> Moves,
                     killers |-> engine.killer_moves[ply],
                     scores |-> [i \in 1..6 |-> score_move(engine, Moves[i], ply)]]
     /\ UNCHANGED <<game, board, engine, sm, clock, log>>

SpecScore ==
  /\ game = [seed |-> 0, white |-> TRUE, phase |-> PHASE_MAX, rootkind |-> "play",
             target_depth |-> 0]
  /\ board = <<ROOT>>
  /\ engine = NewEngine(DEFAULT_DEPTH)
  /\ sm = Idle
  /\ clock = FALSE
  /\ result = [shape |-> "none yet"]
  /\ log = <<>>
  /\ [][NextScore]_vars

\* C24 as stated: whatever the killer and history tables hold, the primary
\* killer of the ply scores above the secondary killer, every killer above
\* every capture and promotion, and every capture above every quiet move
\* that is not a killer of the ply
C24_MoveClassesNeverConfused ==
  result.shape = "scores" =>
    \A i, j \in 1..6 :
      LET a == result.moves[i]
          b == result.moves[j]
          primary(m) == IsQuiet(m) /\ m.mv = result.killers[1]
          secondary(m) == IsQuiet(m) /\ ~primary(m) /\ m.mv = result.killers[2]
          killer(m) == primary(m) \/ secondary(m)
      IN /\ (primary(a) /\ secondary(b)) => result.scores[i] > result.scores[j]
         /\ (killer(a) /\ ~IsQuiet(b)) => result.scores[i] > result.scores[j]
         /\ (a.capture /\ IsQuiet(b) /\ ~killer(b)) => result.scores[i] > result.scores[j]

\* what the code does: after three cutoffs at depth 6 at another ply the
\* quiet move, no killer of this ply, scores 108, the capture QxP 100
C24_Witness ==
  /\ result.shape = "scores"
  /\ result.moves[1].mv \notin {result.killers[1], result.killers[2]}
  /\ result.scores[1] = 3 * MaxScoreDepth * MaxScoreDepth
  /\ result.moves[4].capture
  /\ result.scores[4] = 100
  /\ result.scores[1] > result.scores[4]

(***************************************************************************)
(* A node of the main search on a table that an earlier, deeper search     *)
(* filled: minimax(board, MaxProbeDepth, -100000, 100000, 0) on one        *)
(* position, then minimax on a position with a depth, a window and a ply.  *)
(***************************************************************************)
MaxProbeDepth == 3

NextProbe ==
  \* an earlier search from a position of the first level: the table holds
  \* its entries
  \/ /\ result.shape = "none yet"
     /\ \E p \in {q \in Positions : Level(q) = 0} :
          /\ board' = <<p>>
          /\ engine' = minimax(engine, <<p>>, MaxProbeDepth, -MATE_SCORE, MATE_SCORE, 0).eng
          /\ result' = [shape |-> "filled"]
     /\ UNCHANGED <<game, sm, clock, log>>
  \* one node on a position of the table: the table before it, what it
  \* returns, and what it returns when the score of the entry is another number
  \/ /\ result.shape = "filled"
     /\ \E p \in DOMAIN engine.transposition_table, depth \in 1..MaxProbeDepth,
           ply \in {0, 1}, alpha \in {-MATE_SCORE, -ASPIRATION_WINDOW},
           beta \in {ASPIRATION_WINDOW, MATE_SCORE} :
          LET E == [engine EXCEPT !.stats = NoStats]
              blind == [E EXCEPT !.transposition_table[p].score = @ + 77]
              r == minimax(E, <<p>>, depth, alpha, beta, ply)
          IN /\ board' = <<p>>
             /\ engine' = r.eng
             /\ result' = [shape |-> "node", depth |-> depth, alpha |-> alpha,
                           beta |-> beta, ply |-> ply, score |-> r.score,
                           before |-> engine.transposition_table,
                           blind |-> minimax(blind, <<p>>, depth, alpha, beta, ply).score]
     /\ UNCHANGED <<game, sm, clock, log>>
  \* one quiescence call on the engine the search left: the engine before it
  \* and what the call returns
  \/ /\ result.shape = "filled"
     /\ \E p \in Positions, alpha \in {-MATE_SCORE, -ASPIRATION_WINDOW},
           qs_depth \in {0, QS_CAP_CHECK - 1, QS_CAP_CHECK,
                         QS_CAP_NORMAL - 1, QS_CAP_NORMAL} :
          LET r == quiescence(engine, <<p>>, alpha, -alpha, 1, qs_depth)
          IN /\ board' = <<p>>
             /\ engine' = r.eng
             /\ result' = [shape |-> "quiescence", alpha |-> alpha, beta |-> -alpha,
                           qs_depth |-> qs_depth, score |-> r.score, before |-> engine]
     /\ UNCHANGED <<game, sm, clock, log>>

SpecProbe ==
  /\ game \in [seed : Seeds, white : BOOLEAN, phase : {14}, rootkind : {"play"},
               target_depth : {0}]
  /\ board = <<ROOT>>
  /\ engine = NewEngine(DEFAULT_DEPTH)
  /\ sm = Idle
  /\ clock = FALSE
  /\ result = [shape |-> "none yet"]
  /\ log = <<>>
  /\ [][NextProbe]_vars

\* the node of the last step searched its moves: no draw gate, no end of the
\* game, no return from the probe
NodeSearched ==
  /\ result.shape = "node"
  /\ ~RepetitionGate(board, result.ply)
  /\ ~is_game_over(board)
  /\ ~TTProbe([engine EXCEPT !.transposition_table = result.before], Cur(board),
              result.depth, result.alpha, result.beta, result.ply).cut

\* the window of the node of the last step after its probe
ProbedWindow ==
  LET probe == TTProbe([engine EXCEPT !.transposition_table = result.before], Cur(board),
                       result.depth, result.alpha, result.beta, result.ply)
  IN [alpha |-> probe.alpha, beta |-> probe.beta]

\* C25: a node that searched its moves stores its score with the flag of the
\* score against the alpha and beta it was called with, not against the
\* window its probe left: at most alpha is UpperBound, at least beta is
\* LowerBound, between them Exact; where the replacement policy keeps the old
\* entry, the entry is the old one.
C25_FlagFromOriginalBounds ==
  NodeSearched =>
    LET p == Cur(board)
        flag == IF result.score <= result.alpha THEN TT_UPPERBOUND
                ELSE IF result.score >= result.beta THEN TT_LOWERBOUND
                ELSE TT_EXACT
        after == engine.transposition_table
    IN IF ShouldReplace(result.before, p, result.depth, flag)
       THEN /\ after[p].flag = flag
            /\ after[p].depth = result.depth
            /\ after[p].score = Normalize(result.score, result.ply)
       ELSE after[p] = result.before[p]

\* a node whose probe raised alpha stored its score, which is the raised
\* alpha, as Exact
C25_Witness ==
  /\ NodeSearched
  /\ ProbedWindow.alpha > result.alpha
  /\ result.score = ProbedWindow.alpha
  /\ result.score < result.beta
  /\ engine.transposition_table[Cur(board)].flag = TT_EXACT
  /\ engine.transposition_table[Cur(board)] # result.before[Cur(board)]

\* the value a search of depth d returns for position h on an empty table with
\* the full window
FreshValue(h, d) ==
  minimax(NewEngine(DEFAULT_DEPTH), <<h>>, d, -MATE_SCORE, MATE_SCORE, 0).score

ScoreUnprobed(alpha, beta) ==
  minimax([engine EXCEPT !.transposition_table =
                           [result.before EXCEPT ![Cur(board)].depth = 0],
                         !.stats = NoStats],
          board, result.depth, alpha, beta, result.ply).score

\* C27: a node below the root whose position has an entry at least as deep as
\* the remaining depth returns the score of an Exact entry, searches with alpha
\* raised to a LowerBound entry's score or beta lowered to an UpperBound
\* entry's score, and returns at once when the window closed; at the root, or
\* with a shallower entry, the stored score changes nothing.
C27_ProbeUsesDeepEntriesBelowRoot ==
  (result.shape = "node" /\ ~RepetitionGate(board, result.ply) /\ ~is_game_over(board)) =>
    LET entry == result.before[Cur(board)]
        tt_score == IF entry.score > MATE_BOUND THEN entry.score - result.ply
                    ELSE IF entry.score < -MATE_BOUND THEN entry.score + result.ply
                    ELSE entry.score
        raised == IF tt_score > result.alpha THEN tt_score ELSE result.alpha
        lowered == IF tt_score < result.beta THEN tt_score ELSE result.beta
    IN IF result.ply > 0 /\ entry.depth >= result.depth
       THEN CASE entry.flag = TT_EXACT ->
                   /\ result.score = tt_score
                   /\ engine.transposition_table = result.before
              [] entry.flag = TT_LOWERBOUND ->
                   IF raised >= result.beta
                   THEN /\ result.score = raised
                        /\ engine.transposition_table = result.before
                   ELSE result.score = ScoreUnprobed(raised, result.beta)
              [] entry.flag = TT_UPPERBOUND ->
                   IF result.alpha >= lowered
                   THEN /\ result.score = lowered
                        /\ engine.transposition_table = result.before
                   ELSE result.score = ScoreUnprobed(result.alpha, lowered)
       ELSE /\ result.score = result.blind
            /\ result.score = ScoreUnprobed(result.alpha, result.beta)

\* a node at the root on a position with a deep Exact entry, whose score is not
\* the stored score
C27_Witness ==
  /\ result.shape = "node" /\ ~RepetitionGate(board, result.ply) /\ ~is_game_over(board)
  /\ result.ply = 0
  /\ result.before[Cur(board)].depth >= result.depth
  /\ result.before[Cur(board)].flag = TT_EXACT
  /\ result.score # result.before[Cur(board)].score

(***************************************************************************)
(* The order in which moves are searched                                   *)
(***************************************************************************)
\* the list is in non-increasing score_move order
NonIncreasing(moves, E, ply) ==
  \A i \in 1..(Len(moves) - 1) :
       score_move(E, moves[i], ply) >= score_move(E, moves[i + 1], ply)

\* the list is the promised order of the legal moves of p: the best move of
\* the table first if there is one and it is legal, the others, or all,
\* by score
PromisedOrder(moves, E, p, ply) ==
  LET tt_move == TTBestMove(E, p)
      usable == tt_move # NoneMove /\ IndexOfMove(legal_moves(p), tt_move) # 0
  IN /\ Len(moves) = Len(legal_moves(p))
     /\ \A j \in DOMAIN legal_moves(p) : \E i \in DOMAIN moves : moves[i] = legal_moves(p)[j]
     /\ IF usable
        THEN moves[1].mv = tt_move /\ NonIncreasing(Tail(moves), E, ply)
        ELSE NonIncreasing(moves, E, ply)

\* an iteration has ordered the root moves and searched none of them
RootOrdered == sm.pc = "moves" /\ sm.i = 1 /\ sm.moves_searched = 0

\* C28: the root list of an iteration and the list of every main-search node
\* have the best move of the table first, when it holds a legal one for the
\* position, and the other moves in non-increasing score_move order; without
\* such a move the whole list is in non-increasing score_move order.
C28_PromisedOrderAtRootAndNodes ==
  /\ RootOrdered => PromisedOrder(sm.legal_moves, engine, Root, 0)
  /\ \A p \in Positions, ply \in 0..MaxSearchDepth :
          PromisedOrder(OrderMoves(engine, p, ply), engine, p, ply)

\* the root has no best move in the table and its first move scores less than
\* its second
C28_Witness ==
  /\ RootOrdered
  /\ TTBestMove(engine, Root) = NoneMove
  /\ Len(sm.legal_moves) > 1
  /\ score_move(engine, sm.legal_moves[1], 0) < score_move(engine, sm.legal_moves[2], 0)

(***************************************************************************)
(* The best move of an iteration among equal scores                        *)
(***************************************************************************)
\* the values the root moves received in the last pass of an iteration that
\* reached its end (the re-search if there was one)
FinalPass(it) == SubSeq(it.values, Len(it.values) - it.searched + 1, Len(it.values))

\* C29: the best move of an iteration is the first move of the ordered root
\* list whose score no other move of the pass beats: a later move replaces it
\* only with a strictly greater score (White to move) or a strictly smaller
\* one (Black to move), so of two moves with the same score the earlier stays.
C29_FirstOfEqualScoresKept ==
  \A c \in DOMAIN log : \A i \in DOMAIN log[c].iters :
       LET it == log[c].iters[i]
           pass == FinalPass(it)
           white == Turn(Cur(log[c].board)) = WHITE
       IN it.move # NoneMove =>
            \E k \in DOMAIN pass :
                 /\ pass[k].move = it.move
                 /\ pass[k].value = it.score
                 /\ \A j \in 1..(k - 1) :
                         IF white THEN pass[j].value < it.score ELSE pass[j].value > it.score
                 /\ \A j \in (k + 1)..Len(pass) :
                         IF white THEN pass[j].value <= it.score ELSE pass[j].value >= it.score

\* a committed iteration in which a later root move has the score of the best
\* move
C29_Witness ==
  \E c \in DOMAIN log : \E i \in DOMAIN log[c].iters :
       LET it == log[c].iters[i]
           pass == FinalPass(it)
       IN /\ it.committed
          /\ \E k \in DOMAIN pass : \E j \in (k + 1)..Len(pass) :
                  /\ pass[k].move = it.move
                  /\ pass[k].value = it.score
                  /\ pass[j].value = it.score

(***************************************************************************)
(* What quiescence leaves alone                                            *)
(***************************************************************************)
\* C30: a quiescence call, its recursive calls included, leaves the
\* transposition table, the killer table and the history table as they
\* were; of the engine only the counters of nodes change.
C30_QuiescenceKeepsTables ==
  result.shape = "quiescence" =>
    /\ engine.transposition_table = result.before.transposition_table
    /\ engine.killer_moves = result.before.killer_moves
    /\ engine.history_table = result.before.history_table
    /\ engine = [result.before EXCEPT
                   !.stats.nodes_searched = engine.stats.nodes_searched,
                   !.stats.quiescence_nodes = engine.stats.quiescence_nodes]
    /\ engine.stats.quiescence_nodes > result.before.stats.quiescence_nodes

\* a quiescence call that searched tactical moves in recursive calls, on an
\* engine whose three tables were filled by a search, from a position that has
\* no entry
C30_Witness ==
  /\ result.shape = "quiescence"
  /\ engine.stats.quiescence_nodes >= result.before.stats.quiescence_nodes + 3
  /\ Cur(board) \notin DOMAIN engine.transposition_table
  /\ engine.transposition_table # <<>>
  /\ \E ply \in DOMAIN engine.killer_moves : engine.killer_moves[ply][1] # NoneMove
  /\ HistorySum(engine, MoveSquares) > 0

(***************************************************************************)
(* The depth cap of quiescence                                             *)
(***************************************************************************)
\* the quiescence nodes the call of the last step counted
QsNodes == engine.stats.quiescence_nodes - result.before.stats.quiescence_nodes

C32_OnlyQuietCutoffsRecorded ==
  /\ (result.shape = "cutoff" /\ (result.m.capture \/ result.m.mv.promotion)) =>
       /\ engine.killer_moves = result.before.killer_moves
       /\ engine.history_table = result.before.history_table
       /\ engine = [result.before EXCEPT !.stats.alpha_cutoffs = @ + 1]
  /\ \A ply \in DOMAIN engine.killer_moves : \A k \in 1..2 :
          engine.killer_moves[ply][k] # NoneMove =>
            /\ ~engine.killer_moves[ply][k].promotion
            /\ \E i \in DOMAIN log :
                    log[i].ply = ply /\ log[i].mv = engine.killer_moves[ply][k]

\* a cutoff by a promotion at a ply that has a killer, on an engine with
\* history
C32_Witness ==
  /\ result.shape = "cutoff" /\ result.m.mv.promotion
  /\ result.before.stats.alpha_cutoffs >= 2
  /\ result.before.killer_moves[result.ply][1] # NoneMove
  /\ HistorySum(result.before, MoveSquares) > 0

(***************************************************************************)
(* Root moves searched after the time limit                                *)
(***************************************************************************)
\* C33: in a timed call at a depth above the minimum depth, no root move is
\* searched in a step that begins with the time limit reached.
C33_NoRootSearchAfterLimit ==
  [][(/\ clock /\ sm.pc \in {"moves", "research"}
      /\ sm.hard_time_limit /\ sm.current_depth > ENDGAME_MIN_DEPTH)
       => Len(CurIter.values)' = Len(CurIter.values)]_vars

\* the limit is reached, the aspiration pass of a depth above the minimum has
\* failed, and the re-search has root moves to search
C33_Witness ==
  /\ sm.pc = "research" /\ clock
  /\ sm.hard_time_limit /\ sm.current_depth > ENDGAME_MIN_DEPTH
  /\ sm.i <= Len(sm.legal_moves)

\* C34: a store changes an entry whose flag is Exact only into an entry of
\* strictly greater depth.
C34_ExactOverwrittenOnlyByDeeper ==
  result.shape = "store" =>
    \A h \in DOMAIN result.before :
         (/\ result.before[h].flag = TT_EXACT
          /\ engine.transposition_table[h] # result.before[h])
           => engine.transposition_table[h].depth > result.before[h].depth

\* an Exact entry was overwritten by a deeper entry that is a bound
C34_Witness ==
  /\ result.shape = "store"
  /\ result.key \in DOMAIN result.before
  /\ result.before[result.key].flag = TT_EXACT
  /\ engine.transposition_table[result.key].depth > result.before[result.key].depth
  /\ engine.transposition_table[result.key].flag # TT_EXACT

\* C35: at every ply the two killers are different moves unless both are
\* none, and the secondary is a move only if the primary is one.
C35_KillersDistinct ==
  \A ply \in DOMAIN engine.killer_moves :
       /\ engine.killer_moves[ply][1] = engine.killer_moves[ply][2]
            => engine.killer_moves[ply][1] = NoneMove
       /\ engine.killer_moves[ply][2] # NoneMove
            => engine.killer_moves[ply][1] # NoneMove

\* a quiet move that is the primary killer of its ply caused a cutoff there,
\* at a ply that has a secondary killer
C35_Witness ==
  /\ result.shape = "cutoff" /\ IsQuiet(result.m)
  /\ result.before.killer_moves[result.ply][1] = result.m.mv
  /\ result.before.killer_moves[result.ply][2] # NoneMove
  /\ engine.killer_moves = result.before.killer_moves

(***************************************************************************)
(* The board during a search: every push and its pop, frame by frame       *)
(***************************************************************************)
MaxBoardDepth == 2
MaxBoardPasses == 2

\* a board whose last move stays on it
pop_Keeps(b) == b
\* board.pop()
pop(b) == SubSeq(b, 1, Len(b) - 1)

\* the calls of select_move, minimax and quiescence as a stack of frames;
\* scores are left open: a probe, a stand pat, a cutoff, a time check or a
\* delta skip may or may not end or shorten a loop
NextBoard ==
  LET top == sm.stack[Len(sm.stack)]
      Frame(fn, depth, ply, qs_depth) ==
        [fn |-> fn, pc |-> "entry", depth |-> depth, ply |-> ply, qs_depth |-> qs_depth,
         i |-> 1, passes |-> 1, entry |-> board]
      moves == IF top.fn = "quiescence"
               THEN TacticalMoves(Cur(board), is_check(Cur(board)))
               ELSE legal_moves(Cur(board))
      Set(pc) == sm' = [sm EXCEPT !.stack[Len(sm.stack)].pc = pc]
      \* board.push(move) and the recursive call
      Descend(child) ==
        /\ board' = push(board, moves[top.i])
        /\ sm' = [sm EXCEPT !.stack = Append([@ EXCEPT ![Len(@)].pc = "after"],
                                             [child EXCEPT !.entry = board'])]
        /\ UNCHANGED result
  IN
  /\ UNCHANGED <<game, engine, clock, log>>
  /\ \* select_move is called
     \/ /\ sm.pc = "idle" /\ result.shape = "none yet"
        /\ \E depth \in 1..MaxBoardDepth :
             sm' = [pc |-> "search", stack |-> <<Frame("select_move", depth, 0, 0)>>]
        /\ UNCHANGED <<board, result>>
     \* the returns before any move: no legal moves, draw gate, end of the
     \* game, probe, depth cap, stand pat, no tactical moves
     \/ /\ sm.pc = "search" /\ top.pc = "entry"
        /\ \/ /\ top.fn = "select_move"
              /\ Set(IF moves = <<>> THEN "return" ELSE "loop")
           \/ /\ top.fn = "minimax"
              /\ IF RepetitionGate(board, top.ply) \/ is_game_over(board)
                 THEN Set("return")
                 ELSE IF top.depth = 0
                 THEN sm' = [sm EXCEPT !.stack[Len(sm.stack)].fn = "quiescence"]
                 ELSE \E cut \in BOOLEAN :
                        Set(IF cut /\ top.ply > 0 THEN "return" ELSE "loop")
           \/ /\ top.fn = "quiescence"
              /\ IF top.qs_depth >= QsCap(Cur(board)) \/ is_game_over(board) \/ moves = <<>>
                 THEN Set("return")
                 ELSE \E cut \in BOOLEAN :
                        Set(IF cut /\ ~is_check(Cur(board)) THEN "return" ELSE "loop")
        /\ UNCHANGED <<board, result>>
     \* the loop: its end, a time check that breaks, a delta skip, or a move
     \* that is pushed and searched
     \/ /\ sm.pc = "search" /\ top.pc = "loop"
        /\ IF top.i > Len(moves)
           THEN /\ \/ Set("return")
                   \* select_move: the re-search, or the next depth
                   \/ /\ top.fn = "select_move" /\ top.passes < MaxBoardPasses
                      /\ sm' = [sm EXCEPT !.stack[Len(sm.stack)] =
                                  [@ EXCEPT !.i = 1, !.passes = @ + 1]]
                /\ UNCHANGED <<board, result>>
           ELSE \/ /\ top.fn = "select_move"
                   /\ \/ Set("return") /\ UNCHANGED <<board, result>>
                      \/ Descend(Frame("minimax", top.depth - 1, 0, 0))
                \/ /\ top.fn = "minimax"
                   /\ Descend(Frame("minimax", top.depth - 1, top.ply + 1, 0))
                \/ /\ top.fn = "quiescence"
                   /\ \/ /\ moves[top.i].capture /\ ~moves[top.i].mv.promotion
                         /\ ~is_check(Cur(board))
                         /\ sm' = [sm EXCEPT !.stack[Len(sm.stack)].i = @ + 1]
                         /\ UNCHANGED <<board, result>>
                      \/ Descend(Frame("quiescence", 0, top.ply + 1, top.qs_depth + 1))
     \* the call returned: board.pop(), then a cutoff or the next move
     \/ /\ sm.pc = "search" /\ top.pc = "after"
        /\ board' = pop(board)
        /\ \E cut \in BOOLEAN :
             sm' = [sm EXCEPT !.stack[Len(sm.stack)] =
                      [@ EXCEPT !.pc = IF cut /\ top.fn # "select_move" THEN "return"
                                       ELSE "loop",
                                !.i = @ + 1]]
        /\ UNCHANGED result
     \* return: the frame is left
     \/ /\ sm.pc = "search" /\ top.pc = "return"
        /\ result' = [shape |-> "returned", fn |-> top.fn, entry |-> top.entry,
                      board |-> board, frames |-> Len(sm.stack) - 1]
        /\ sm' = IF Len(sm.stack) = 1 THEN Idle
                 ELSE [sm EXCEPT !.stack = SubSeq(@, 1, Len(@) - 1)]
        /\ UNCHANGED board

SpecBoard ==
  /\ game \in [seed : Seeds, white : BOOLEAN, phase : {PHASE_MAX}, rootkind : {"play"},
               target_depth : {0}]
  /\ board \in {<<ROOT, q>> : q \in {p \in Positions : Level(p) = 1}}
  /\ engine = NewEngine(DEFAULT_DEPTH)
  /\ sm = Idle
  /\ clock = FALSE
  /\ result = [shape |-> "none yet"]
  /\ log = <<>>
  /\ [][NextBoard]_vars

\* C36: when select_move, minimax or quiescence returns, the board is the
\* board it was called with, position and move stack, whichever way the call
\* ended; during a search the board is the board given to select_move with one
\* move for each pushed move that has not been popped.
C36_BoardRestored ==
  /\ result.shape = "returned" => result.board = result.entry
  /\ sm.pc = "search" =>
       /\ Len(board) = Len(sm.stack[1].entry)
                         + Cardinality({j \in DOMAIN sm.stack : sm.stack[j].pc = "after"})
       /\ SubSeq(board, 1, Len(sm.stack[1].entry)) = sm.stack[1].entry

\* a quiescence call three moves below the board given to select_move has
\* returned
C36_Witness ==
  /\ result.shape = "returned" /\ result.fn = "quiescence"
  /\ sm.pc = "search"
  /\ Len(result.entry) >= Len(sm.stack[1].entry) + 3

\* the games whose thread is between its start and its release of is_playing
Playing == {g \in 1..MaxGames :
              result.pc[g] \in {"start", "clear_tt", "stream", "select_move", "finally"}}

\* C37: at most one game thread is between its start and its release of
\* is_playing, whatever the order of gameStart events, challenges, reconnects
\* of the event stream and ends of game threads, and is_playing is set while
\* there is one; a gameStart handled while is_playing is set starts no thread.
C37_OneGameAtATime ==
  /\ [](result.shape = "bot" => /\ Cardinality(Playing) <= 1
                                /\ Playing # {} => result.is_playing)
  /\ [][\A g \in 1..MaxGames :
          (result.pc[g] = "announced" /\ result.is_playing) => result'.pc[g] # "start"]_vars

\* a game announced again after a reconnect was skipped while the thread of
\* another game was playing, after the thread of a third game had ended
C37_Witness ==
  /\ result.shape = "bot" /\ result.reconnects > 0
  /\ \E g, h, k \in 1..MaxGames :
          /\ result.pc[g] = "skipped" /\ result.pc[h] = "stream" /\ result.pc[k] = "done"

(***************************************************************************)
(* The bot's move request: lichess_bot.handle_game_state computes a time   *)
(* limit and a target depth and calls CppEngineAgent.select_move, which    *)
(* writes "position" and "go" to the engine process and reads its output   *)
(* up to the bestmove line.  Times are whole milliseconds on the wire; the *)
(* seconds of the code are kept exactly, as Tick-ths of a millisecond.     *)
(* The engine process is the environment: it writes up to MaxLines lines   *)
(* and then a bestmove line, or it closes its output.                      *)
(***************************************************************************)
MaxClockExp == 6
MaxLines == 2
Tick == 40
EXPECTED_MOVES == 40
INCREMENT_USAGE == 8
MIN_LIMIT == 100
LOW_TIME == 10000
LOW_LIMIT == 500
BLITZ_INITIAL == 300
BLITZ_DEPTH == 8
RAPID_DEPTH == 9
BOT_DEPTH == 9
MOVETIME_PHASE == 10
DEFAULT_ENDGAME_LIMIT == 5000
NoneTime == -1

RECURSIVE Pow2(_)
Pow2(k) == IF k = 0 THEN 1 ELSE 2 * Pow2(k - 1)

\* clock values of a game state, in milliseconds (NoneTime: the key holds None)
Clocks == {NoneTime, 0} \cup {250 * Pow2(k) : k \in 0..MaxClockExp}
Increments == {0, 2000, 10000}

\* to_seconds: None is 0.0, a number of milliseconds is divided by 1000.0
to_seconds(time_value) == IF time_value = NoneTime THEN 0 ELSE time_value * Tick

\* calculate_time_limit: the limit for this move, in Tick-ths of a millisecond
calculate_time_limit(wtime, btime, winc, binc, turn) ==
  LET our_time == IF turn THEN to_seconds(wtime) ELSE to_seconds(btime)
      our_inc == IF turn THEN to_seconds(winc) ELSE to_seconds(binc)
      time_per_move == our_time \div EXPECTED_MOVES + (our_inc * INCREMENT_USAGE) \div 10
      max_time == our_time \div 10
      time_limit == Max(MIN_LIMIT * Tick, Min(time_per_move, max_time))
  IN IF our_time < LOW_TIME * Tick THEN Min(time_limit, LOW_LIMIT * Tick) ELSE time_limit

\* handle_game_state: the depth asked for, from the game's initial time in seconds
TargetDepth(initial_time) == IF initial_time < BLITZ_INITIAL THEN BLITZ_DEPTH ELSE RAPID_DEPTH

\* CppEngineAgent.select_move: the go command written to the engine
\* (target_depth 0: None; movetime is int(endgame_time_limit * 1000))
GoCommand(phase, target_depth, endgame_time_limit, depth) ==
  IF phase < MOVETIME_PHASE /\ target_depth = 0
  THEN [cmd |-> "movetime", arg |-> endgame_time_limit \div Tick]
  ELSE [cmd |-> "depth", arg |-> IF target_depth # 0 THEN target_depth ELSE depth]

\* what the engine may write after go: lines that are not bestmove lines, and
\* then one bestmove line, or nothing more (the process has ended)
EngineOutputs ==
  UNION {{pre \o post : pre \in [1..n -> {"info", "other"}],
                        post \in {<<>>, <<"bestmove e2e4">>, <<"bestmove e2e5">>,
                                  <<"bestmove (none)">>, <<"bestmove">>}} : n \in 0..MaxLines}

BridgeIdle ==
  [shape |-> "bridge", pc |-> "idle", caller |-> "none", our_time |-> 0, time_limit |-> 0,
   target_depth |-> 0, phase |-> 0, go |-> [cmd |-> "none", arg |-> 0], out |-> <<>>,
   line |-> "none", best_score |-> NoneScore, ret |-> "none"]

NextBridge ==
  \* handle_game_state: our turn; time limit and depth, then select_move,
  \* which writes the position
  \/ /\ UNCHANGED <<game, board, engine, sm, clock, log>>
     /\ result.pc = "idle"
     /\ \E wtime, btime \in Clocks, winc, binc \in Increments, turn \in BOOLEAN,
           initial_time \in {BLITZ_INITIAL - 1, BLITZ_INITIAL},
           phase \in {0, MOVETIME_PHASE - 1, MOVETIME_PHASE, PHASE_MAX} :
          result' = [result EXCEPT
            !.pc = "position", !.caller = "handle_game_state",
            !.our_time = IF turn THEN to_seconds(wtime) ELSE to_seconds(btime),
            !.time_limit = calculate_time_limit(wtime, btime, winc, binc, turn),
            !.target_depth = TargetDepth(initial_time), !.phase = phase]
  \* engine.select_move(board) of the other callers: no depth, default limit
  \/ /\ UNCHANGED <<game, board, engine, sm, clock, log>>
     /\ result.pc = "idle"
     /\ \E phase \in {0, MOVETIME_PHASE - 1, MOVETIME_PHASE, PHASE_MAX} :
          result' = [result EXCEPT
            !.pc = "position", !.caller = "select_move",
            !.time_limit = DEFAULT_ENDGAME_LIMIT * Tick, !.phase = phase]
  \* select_move writes the go command; the engine's answer is in the pipe
  \/ /\ UNCHANGED <<game, board, engine, sm, clock, log>>
     /\ result.pc = "position"
     /\ \E out \in EngineOutputs :
          result' = [result EXCEPT
            !.pc = "readline", !.out = out,
            !.go = GoCommand(result.phase, result.target_depth, result.time_limit,
                             BOT_DEPTH)]
  \* _read_until_bestmove: line = readline().strip(); "" at the end of the output
  \/ /\ UNCHANGED <<game, board, engine, sm, clock, log>>
     /\ result.pc = "readline"
     /\ result' = [result EXCEPT
          !.pc = "test",
          !.line = IF result.out = <<>> THEN "" ELSE Head(result.out),
          !.out = IF result.out = <<>> THEN <<>> ELSE Tail(result.out)]
  \* an info line is parsed, any other line that is no bestmove line is dropped
  \/ /\ UNCHANGED <<game, board, engine, sm, clock, log>>
     /\ result.pc = "test" /\ result.line \in {"info", "other", ""}
     /\ result' = [result EXCEPT
          !.pc = "readline",
          !.best_score = IF result.line = "info" THEN [none |-> FALSE, v |-> 12] ELSE @]
  \* a bestmove line ends the loop; select_move returns the move if it is a
  \* legal one, and (None, None) otherwise
  \/ /\ UNCHANGED <<game, board, engine, sm, clock, log>>
     /\ result.pc = "test" /\ result.line \notin {"info", "other", ""}
     /\ result' = [result EXCEPT
          !.pc = "returned",
          !.ret = IF result.line = "bestmove e2e4" THEN "move" ELSE "none"]

SpecBridge ==
  /\ game = [seed |-> 0, white |-> TRUE, phase |-> PHASE_MAX, rootkind |-> "play",
             target_depth |-> 0]
  /\ board = <<ROOT>>
  /\ engine = NewEngine(DEFAULT_DEPTH)
  /\ sm = Idle
  /\ clock = FALSE
  /\ result = BridgeIdle
  /\ log = <<>>
  /\ [][NextBridge]_vars

\* the reads of the loop are steps of a running thread: it is never suspended
\* for ever while a step is possible
SpecBridgeLive == SpecBridge /\ WF_vars(NextBridge)

\* C38: every search the bot asks for is bounded by the time limit computed by
\* calculate_time_limit: the engine is told to search for that time, in every
\* phase, and not to a fixed depth without a time bound.
C38_BotSearchTimeBounded ==
  (result.shape = "bridge" /\ result.caller = "handle_game_state"
     /\ result.go.cmd # "none")
    => /\ result.go.cmd = "movetime"
       /\ result.go.arg = result.time_limit \div Tick

\* the bot has asked for a move in an endgame position with a computed limit
\* of 1.6 s, and the engine was told to search to depth 8
C38_Witness ==
  /\ result.shape = "bridge" /\ result.caller = "handle_game_state"
  /\ result.phase < MOVETIME_PHASE /\ result.time_limit = 1600 * Tick
  /\ result.go = [cmd |-> "depth", arg |-> BLITZ_DEPTH]

\* C39: every call of select_move returns: after the position and go commands
\* it reads up to the bestmove line and returns, also when the engine ends
\* its output before a bestmove line.
C39_SelectMoveReturns == (result.pc = "position") ~> (result.pc = "returned")

\* the engine's output has ended without a bestmove line and the loop has
\* read the empty string
C39_Witness ==
  /\ result.shape = "bridge" /\ result.pc = "test"
  /\ result.line = "" /\ result.out = <<>>

\* C40: the limit returned by calculate_time_limit is at most one tenth of the
\* mover's remaining time, for every remaining time and increment.
C40_AtMostTenthOfClock ==
  (result.shape = "bridge" /\ result.caller = "handle_game_state")
    => result.time_limit * 10 <= result.our_time

\* half a second is left and the limit is the floor of 0.1 s
C40_Witness ==
  /\ result.shape = "bridge" /\ result.caller = "handle_game_state"
  /\ result.our_time = 500 * Tick /\ result.time_limit = MIN_LIMIT * Tick

====
